---- MODULE Spec2Model ----
(***************************************************************************)
(* CCGate: a multi-tenant reverse proxy in front of Anthropic-compatible   *)
(* upstreams.  The module models                                           *)
(*   - the load balancer              (src/src/core/loadBalancer.js),      *)
(*   - the authenticator              (src/unnamed/part_001),              *)
(*   - the usage store / limit guard  (src/src/services/usageService.js),  *)
(*   - the Anthropic proxy pipeline   (src/src/core/proxy.js),             *)
(*   - the helpers they call          (src/src/utils/helpers.js).          *)
(* Specifications:                                                         *)
(*   Spec     the request pipeline (ProxyCore.handleRequest) over the      *)
(*            balancer, the authenticator and the usage store;             *)
(*   SpecWRR  repeated selectUpstream over a fixed candidate list;         *)
(*   SpecLB   selectUpstream interleaved with health-probe results;        *)
(*   SpecAuth AuthMiddleware.authenticate applied to enumerated requests.  *)
(***************************************************************************)
EXTENDS Integers, Sequences, FiniteSets, TLC

VARIABLES
    \* ---- LoadBalancer (loadBalancer.js:6-13)
    lbConfig,        \* configManager.getUpstreamsConfig()
    upstreams,       \* this.upstreams: the enabled upstreams as of the last load
    currentIndex,    \* this.currentIndex
    healthStatus,    \* this.healthStatus: id -> undefined / true / false
    weightCounters,  \* this.weightCounters: null, or id -> number
    lbResult,        \* outcome of the last selectUpstream call, and the number of calls
    selections,      \* ids returned by selectUpstream so far (SpecWRR), since the last reload (SpecReload)
    healthCheckInterval, \* this.healthCheckInterval: 0 for null, else the handle setInterval returned
    timers,          \* the handles of the interval timers that are active
    probesInFlight,  \* ids of the upstreams with a health probe under way
    \* ---- AuthMiddleware applied to one request (SpecAuth)
    authReq,         \* the request under test
    authOut,         \* what authenticate returned for it
    \* ---- ProxyCore.handleRequest, per request
    req,             \* the incoming request (url, credentials, body)
    pc,              \* position of the handler
    ctx,             \* {tenant, model, upstream} once known
    snapshot,        \* todayUsage.totalCost read by the limit guard
    upstreamOpened,  \* number of upstream requests opened (proxyModule.request)
    upstreamSent,    \* body chunks written to the upstream request
    upstreamLeft,    \* upstream response bytes not yet delivered
    upstreamGot,     \* upstream response bytes delivered so far ('data' events)
    responseBody,    \* the tee: responseBody += chunk.toString()
    res,             \* the client response: writeHead / write / end calls
    usageFiles,      \* data/usage/{tenant}/{month}/{day}.json : lines
    today,           \* the current UTC day
    \* ---- the usage store's directories and its recordUsage calls (SpecAppend)
    dirs,            \* the directories that exist under data/usage
    writers,         \* position of each recordUsage call
    \* ---- a helper function applied to one argument (SpecCost, SpecTokens)
    helperIn,        \* the argument
    helperOut        \* what the function returned for it

timerVars == <<healthCheckInterval, timers, probesInFlight>>
lbVars    == <<lbConfig, upstreams, currentIndex, healthStatus, weightCounters, lbResult, selections, timerVars>>
authVars  == <<authReq, authOut>>
proxyVars == <<req, pc, ctx, snapshot, upstreamOpened, upstreamSent, upstreamLeft, upstreamGot, responseBody, res, usageFiles, today>>
helperVars == <<helperIn, helperOut>>
storeVars == <<dirs, writers>>
vars      == <<lbVars, authVars, proxyVars, helperVars, storeVars>>

-----------------------------------------------------------------------------
(* Bounds of the model *)

\* largest configured upstream weight explored by SpecWRR
MaxWeight == 3
\* number of selectUpstream calls SpecWRR follows
MaxSelections == 8
\* number of selectUpstream calls SpecLB follows
MaxLBCalls == 4
\* resolution of Math.random(): it returns k / RandomRes, k in 0..RandomRes-1
RandomRes == 6

\* upstream.weight || 100
DefaultWeight == 100

-----------------------------------------------------------------------------
(* Generic helpers *)

RECURSIVE SumSeq(_)
SumSeq(s) == IF s = <<>> THEN 0 ELSE Head(s) + SumSeq(Tail(s))

Range(s) == {s[k] : k \in 1..Len(s)}

-----------------------------------------------------------------------------
(* LoadBalancer *)

UpstreamIds == <<"A", "B", "C">>
IdSet == Range(UpstreamIds)

Strategies == {"round_robin", "weighted_round_robin", "random", "weighted_random",
               "least_connections", "undefined"}

\* values of a weightCounters entry: a number, NaN, or undefined (no entry)
Num(n)    == [k |-> "num", v |-> n]
NaN       == [k |-> "NaN", v |-> 0]
Undefined == [k |-> "undefined", v |-> 0]

\* this.weightCounters === null / undefined
NullCounters == [null |-> TRUE, m |-> [id \in IdSet |-> Undefined]]

\* JavaScript: counter + number
JsAdd(c, n) == IF c.k = "num" THEN Num(c.v + n) ELSE NaN

\* JavaScript: a > b, for a a counter value and b a number
JsGreater(c, n) == c.k = "num" /\ c.v > n

\* upstream.weight || 100
EffectiveWeight(u) == IF u.weight = 0 THEN DefaultWeight ELSE u.weight

\* upstreams.reduce((sum, upstream) => sum + (upstream.weight || 100), 0)
TotalWeight(cands) == SumSeq([k \in 1..Len(cands) |-> EffectiveWeight(cands[k])])

\* an updateUpstreams() that keeps the disabled upstreams too
AllUpstreams(cfg) == cfg.upstreams
\* config.upstreams.filter(upstream => upstream.enabled)
EnabledUpstreams(cfg) == SelectSeq(cfg.upstreams, LAMBDA u : u.enabled)

\* getHealthyUpstreams: isHealthy !== false
\* a filter that keeps only the upstreams a probe found healthy
IsCandidateHealthyStrict(u) == healthStatus[u.id] = "healthy"
IsCandidateHealthy(u) == healthStatus[u.id] # "unhealthy"
GetHealthyUpstreams == SelectSeq(upstreams, IsCandidateHealthy)

Threw(idx, ctrs) == [threw |-> TRUE, id |-> "none", index |-> idx, counters |-> ctrs]
Returned(id, idx, ctrs) == [threw |-> FALSE, id |-> id, index |-> idx, counters |-> ctrs]

RoundRobinSelection(cands, idx, ctrs) ==
    IF Len(cands) = 0 THEN Threw(idx, ctrs)
    ELSE Returned(cands[(idx % Len(cands)) + 1].id, (idx + 1) % Len(cands), ctrs)

\* the forEach of weightedRoundRobinSelection: st = [m, sel, max]
RECURSIVE WrrScan(_, _, _)
WrrScan(cands, k, st) ==
    IF k > Len(cands) THEN st
    ELSE LET u  == cands[k]
             cw == JsAdd(st.m[u.id], EffectiveWeight(u))
             m2 == [st.m EXCEPT ![u.id] = cw]
         IN  IF JsGreater(cw, st.max)
             THEN WrrScan(cands, k + 1, [m |-> m2, sel |-> u.id, max |-> cw.v])
             ELSE WrrScan(cands, k + 1, [m |-> m2, sel |-> st.sel, max |-> st.max])

WeightedRoundRobinSelection(cands, idx, ctrs) ==
    IF Len(cands) = 0 THEN Threw(idx, ctrs)
    ELSE LET totalWeight == TotalWeight(cands) IN
         IF totalWeight = 0 THEN RoundRobinSelection(cands, idx, ctrs)
         ELSE LET m0 == IF ctrs.null
                        THEN [id \in IdSet |->
                                 IF \E k \in 1..Len(cands) : cands[k].id = id
                                 THEN Num(0) ELSE Undefined]
                        ELSE ctrs.m
                  st == WrrScan(cands, 1, [m |-> m0, sel |-> "none", max |-> -1])
              IN  IF st.sel # "none"
                  THEN Returned(st.sel, idx,
                         [null |-> FALSE,
                          m |-> [st.m EXCEPT ![st.sel] = JsAdd(st.m[st.sel], -totalWeight)]])
                  ELSE Returned(cands[1].id, idx, [null |-> FALSE, m |-> st.m])

\* Math.floor(Math.random() * upstreams.length), Math.random() = rnd / RandomRes
RandomSelection(cands, idx, ctrs, rnd) ==
    IF Len(cands) = 0 THEN Threw(idx, ctrs)
    ELSE Returned(cands[((rnd * Len(cands)) \div RandomRes) + 1].id, idx, ctrs)

\* the for loop of weightedRandomSelection: randomNum -= weight; if (randomNum <= 0)
\* with randomNum = (rnd / RandomRes) * totalWeight, scaled by RandomRes
RECURSIVE WeightedRandomScan(_, _, _)
WeightedRandomScan(cands, k, scaledLeft) ==
    IF k > Len(cands) THEN cands[Len(cands)].id
    ELSE LET left == scaledLeft - EffectiveWeight(cands[k]) * RandomRes
         IN  IF left <= 0 THEN cands[k].id ELSE WeightedRandomScan(cands, k + 1, left)

WeightedRandomSelection(cands, idx, ctrs, rnd) ==
    IF Len(cands) = 0 THEN Threw(idx, ctrs)
    ELSE LET totalWeight == TotalWeight(cands) IN
         IF totalWeight = 0 THEN RandomSelection(cands, idx, ctrs, rnd)
         ELSE Returned(WeightedRandomScan(cands, 1, rnd * totalWeight), idx, ctrs)

\* config.loadBalancer.strategy || 'weighted_round_robin'
StrategyOf(cfg) == IF cfg.strategy = "undefined" THEN "weighted_round_robin" ELSE cfg.strategy

\* a selectUpstream that does not fail over: what C9 rules out
CandidatesOfNoFailover(cfg) ==
    IF cfg.healthCheckEnabled
    THEN IF Len(GetHealthyUpstreams) = 0
         THEN [none |-> TRUE, list |-> <<>>]
         ELSE [none |-> FALSE, list |-> GetHealthyUpstreams]
    ELSE [none |-> FALSE, list |-> upstreams]

\* the candidate list of selectUpstream; none |-> TRUE is the throw of line 128
CandidatesOf(cfg) ==
    IF cfg.healthCheckEnabled
    THEN IF Len(GetHealthyUpstreams) = 0
         THEN IF cfg.failoverEnabled
              THEN [none |-> FALSE, list |-> upstreams]
              ELSE [none |-> TRUE, list |-> <<>>]
         ELSE [none |-> FALSE, list |-> GetHealthyUpstreams]
    ELSE [none |-> FALSE, list |-> upstreams]

StrategySwitch(strategy, cands, idx, ctrs, rnd) ==
    CASE strategy = "round_robin"          -> RoundRobinSelection(cands, idx, ctrs)
      [] strategy = "weighted_round_robin" -> WeightedRoundRobinSelection(cands, idx, ctrs)
      [] strategy = "random"               -> RandomSelection(cands, idx, ctrs, rnd)
      [] strategy = "weighted_random"      -> WeightedRandomSelection(cands, idx, ctrs, rnd)
      [] OTHER                             -> WeightedRoundRobinSelection(cands, idx, ctrs)

\* selectUpstream(requestId): the value returned or the throw, and the new
\* currentIndex and weightCounters
SelectUpstream(rnd) ==
    LET c == CandidatesOf(lbConfig) IN
    IF c.none THEN Threw(currentIndex, weightCounters)
    ELSE StrategySwitch(StrategyOf(lbConfig), c.list, currentIndex, weightCounters, rnd)

RandomDraws == 0..(RandomRes - 1)

\* the draws a call can observe: only the random strategies read Math.random()
DrawsOf(cfg) == IF StrategyOf(cfg) \in {"random", "weighted_random"} THEN RandomDraws ELSE {0}

\* updateHealthStatus(upstreamId, isHealthy)
UpdateHealthStatus(id, isHealthy) ==
    healthStatus' = [healthStatus EXCEPT ![id] = IF isHealthy THEN "healthy" ELSE "unhealthy"]

MkUpstream(k, w, e) == [id |-> UpstreamIds[k], weight |-> w, enabled |-> e]

IdsOf(ups) == {ups[k].id : k \in 1..Len(ups)}

\* startHealthCheck(): nothing when health checks are disabled; otherwise a
\* new interval timer, whose handle is kept, and performHealthCheck() at
\* once, which starts a probe of each of this.upstreams.  `h` is the handle
\* held so far, `ups` is this.upstreams.
StartHealthCheck(cfg, ups, h, ts, probes) ==
    IF ~cfg.healthCheckEnabled
    THEN [healthCheckInterval |-> h, timers |-> ts, probesInFlight |-> probes]
    ELSE [healthCheckInterval |-> h + 1, timers |-> ts \cup {h + 1},
          probesInFlight |-> probes \cup IdsOf(ups)]

LBFresh(cfg) ==
    /\ lbConfig = cfg
    /\ upstreams = EnabledUpstreams(cfg)
    /\ currentIndex = 0
    /\ healthStatus = [id \in IdSet |-> "undefined"]
    /\ weightCounters = NullCounters
    /\ lbResult = [threw |-> FALSE, id |-> "none", calls |-> 0]
    /\ selections = <<>>
    /\ LET t == StartHealthCheck(cfg, EnabledUpstreams(cfg), 0, {}, {}) IN
       /\ healthCheckInterval = t.healthCheckInterval
       /\ timers = t.timers
       /\ probesInFlight = t.probesInFlight

-----------------------------------------------------------------------------
(* Text.  A body is a sequence of units; a chunk boundary may fall between  *)
(* any two units.  A unit is a piece of text: a whole JSON document, an     *)
(* SSE "event: <name>" or "data: <json>" line content, a line feed, other   *)
(* text, or one of the two bytes of a two-byte UTF-8 character.             *)

NoUsage == [present |-> FALSE, i |-> 0, o |-> 0, cc |-> 0, cr |-> 0]
Usage(i, o, cc, cr) == [present |-> TRUE, i |-> i, o |-> o, cc |-> cc, cr |-> cr]

Unit(t, name, model, u, mu) == [t |-> t, name |-> name, model |-> model, u |-> u, mu |-> mu]
\* {"model": model, "usage": u, ...}
JsonDoc(model, u) == Unit("json", "", model, u, NoUsage)
\* a JSON document that is no object, such as 42
JsonScalar == Unit("jsonscalar", "", <<>>, NoUsage, NoUsage)
\* event: <name>
EventLine(name) == Unit("event", name, <<>>, NoUsage, NoUsage)
\* data: {"message": {"usage": mu}, "usage": u}
DataLine(mu, u) == Unit("data", "", <<>>, u, mu)
\* data: {"type": type, "message": {"usage": mu}, "usage": u, ...}; a
\* message_delta carries delta.stop_reason, a content_block_delta delta.text
TypedDataLine(type, mu, u) == Unit("data", type, <<>>, u, mu)
LF == Unit("lf", "", <<>>, NoUsage, NoUsage)
Text == Unit("text", "", <<>>, NoUsage, NoUsage)
\* the two bytes of one two-byte UTF-8 character
LeadByte == Unit("lead", "", <<>>, NoUsage, NoUsage)
ContByte == Unit("cont", "", <<>>, NoUsage, NoUsage)
\* what they decode to: the character, or U+FFFD for a byte on its own
Char2 == Unit("char2", "", <<>>, NoUsage, NoUsage)
Replacement == Unit("fffd", "", <<>>, NoUsage, NoUsage)
\* the body of an OpenAI chat completions request: {"model", "stream", "messages"}
OpenAIRequestDoc(model, stream) ==
    Unit("json", IF stream THEN "openai_stream" ELSE "openai", model, NoUsage, NoUsage)
\* JSON.stringify(claudeRequest): {"model", "messages", "max_tokens", "stream"}
ClaudeRequestDoc(model, stream) ==
    Unit("json", IF stream THEN "stream" ELSE "", model, NoUsage, NoUsage)
\* JSON.stringify(errorResponse.body, null, 2): the error body of ProxyCore
ErrorJson(error) == Unit("errorjson", error, <<>>, NoUsage, NoUsage)
\* JSON.stringify(openaiResponse, null, 2) with object "chat.completion"
ChatCompletion(model, u) == Unit("chat.completion", "", model, u, NoUsage)
\* data: {"object": "chat.completion.chunk", ...} for one upstream event
ChunkFrame(type) == Unit("chunk_frame", type, <<>>, NoUsage, NoUsage)
\* data: [DONE]
DoneFrame == Unit("done_frame", "", <<>>, NoUsage, NoUsage)

\* chunk.toString(): UTF-8 decoding of one chunk on its own
RECURSIVE ChunkToString(_)
ChunkToString(chunk) ==
    IF chunk = <<>> THEN <<>>
    ELSE IF Head(chunk).t = "lead"
         THEN IF Len(chunk) >= 2 /\ chunk[2].t = "cont"
              THEN <<Char2>> \o ChunkToString(Tail(Tail(chunk)))
              ELSE <<Replacement>> \o ChunkToString(Tail(chunk))
         ELSE IF Head(chunk).t = "cont"
              THEN <<Replacement>> \o ChunkToString(Tail(chunk))
              ELSE <<Head(chunk)>> \o ChunkToString(Tail(chunk))

\* str.split('\n')
RECURSIVE SplitLines(_, _)
SplitLines(body, cur) ==
    IF body = <<>> THEN <<cur>>
    ELSE IF Head(body).t = "lf" THEN <<cur>> \o SplitLines(Tail(body), <<>>)
         ELSE SplitLines(Tail(body), Append(cur, Head(body)))

\* JSON.parse(body): the document, or null (found |-> FALSE) when it throws;
\* line feeds around the document are white space
StripLF(body) == SelectSeq(body, LAMBDA x : x.t # "lf")
JsonParse(body) ==
    LET core == StripLF(body) IN
    IF Len(core) = 1 /\ core[1].t \in {"json", "jsonscalar"}
    THEN [found |-> TRUE, doc |-> core[1]]
    ELSE [found |-> FALSE, doc |-> Text]

\* Helpers.parseRequestBody
ParseRequestBody(body) == JsonParse(body)

\* parsed?.model || null : the empty string is falsy
ExtractModelFromBody(body) ==
    LET p == ParseRequestBody(body) IN
    IF p.found /\ p.doc.t = "json" THEN p.doc.model ELSE <<>>

\* {inputTokens: usage.input_tokens || 0, ...}
TokensOf(u) == [inputTokens |-> u.i, outputTokens |-> u.o,
                cacheCreationTokens |-> u.cc, cacheReadTokens |-> u.cr]
ZeroTokens == [inputTokens |-> 0, outputTokens |-> 0,
               cacheCreationTokens |-> 0, cacheReadTokens |-> 0]
NullTokens == [found |-> FALSE, tokens |-> ZeroTokens]
SomeTokens(t) == [found |-> TRUE, tokens |-> t]

\* Helpers.parseSSEUsageData(eventType, eventData); eventData is the rest of
\* the data line
ParseSSEUsageData(eventType, eventData) ==
    IF Len(eventData) = 1 /\ eventData[1].t = "data"
    THEN IF eventType = "message_start" /\ eventData[1].mu.present
         THEN SomeTokens(TokensOf(eventData[1].mu))
         ELSE IF eventType = "message_delta" /\ eventData[1].u.present
              THEN SomeTokens(TokensOf(eventData[1].u))
              ELSE NullTokens
    ELSE NullTokens

\* the name after "event: " on a line that starts with it
EventNameOf(line) == IF Len(line) = 1 THEN line[1].name ELSE "other"

AnyPositive(t) == t.inputTokens > 0 \/ t.outputTokens > 0 \/ t.cacheCreationTokens > 0 \/ t.cacheReadTokens > 0

\* a flush in which the first usage seen stays: what C19 rules out
FlushEventFirstWins(st) ==
    IF st.ev # "" /\ st.data # <<>>
    THEN LET usage == ParseSSEUsageData(st.ev, st.data) IN
         IF usage.found /\ st.ev \in {"message_start", "message_delta"} /\ ~AnyPositive(st.total)
         THEN usage.tokens ELSE st.total
    ELSE st.total

\* one event's accumulated data, handed to parseSSEUsageData when the next
\* "event: " line arrives (helpers.js:71-79)
FlushEvent(st) ==
    IF st.ev # "" /\ st.data # <<>>
    THEN LET usage == ParseSSEUsageData(st.ev, st.data) IN
         IF usage.found /\ st.ev \in {"message_start", "message_delta"}
         THEN usage.tokens ELSE st.total
    ELSE st.total

\* the for loop over the lines (helpers.js:65-86): st = [ev, data, total]
RECURSIVE SseWalk(_, _)
SseWalk(lines, st) ==
    IF lines = <<>> THEN st
    ELSE LET line == Head(lines) IN
         IF line # <<>> /\ Head(line).t = "event"
         THEN SseWalk(Tail(lines), [ev |-> EventNameOf(line), data |-> <<>>, total |-> FlushEvent(st)])
         ELSE IF line # <<>> /\ Head(line).t = "data"
              THEN SseWalk(Tail(lines), [st EXCEPT !.data = line])
              ELSE SseWalk(Tail(lines), st)

\* responseBody.includes('event: message_start') || includes('event: message_delta')
LooksLikeSSE(body) ==
    \E k \in 1..Len(body) : body[k].t = "event" /\ body[k].name \in {"message_start", "message_delta"}

\* Helpers.extractTokenUsage(responseBody)
ExtractTokenUsage(body) ==
    LET parsed == ParseRequestBody(body) IN
    IF parsed.found /\ parsed.doc.t = "json" /\ parsed.doc.u.present
    THEN SomeTokens(TokensOf(parsed.doc.u))
    ELSE IF LooksLikeSSE(body)
         THEN LET st    == SseWalk(SplitLines(body, <<>>), [ev |-> "", data |-> <<>>, total |-> ZeroTokens])
                  last  == IF st.ev # "" /\ st.data # <<>>
                           THEN ParseSSEUsageData(st.ev, st.data) ELSE NullTokens
                  total == IF last.found THEN last.tokens ELSE st.total
              IN  IF AnyPositive(total) THEN SomeTokens(total) ELSE NullTokens
         ELSE NullTokens

-----------------------------------------------------------------------------
(* Wildcard matcher.  A string is a sequence of characters. *)

LowerCase(c) == CASE c = "H" -> "h" [] c = "S" -> "s" [] c = "A" -> "a" [] OTHER -> c

\* The regular expression built from a pattern.  The first replace escapes
\* . + ^ $ { } ( ) | [ ] and the backslash, so these stand for themselves;
\* '*' becomes '.*'; '?' is not in the escaped set and stays a quantifier:
\* after a character it makes the character optional, a second one makes
\* that lazy, after '.*' one makes the star lazy, and anywhere else there is
\* nothing to repeat and new RegExp throws.
\* the number of characters of the term of p that starts at place i: the
\* character or '*', the '?' after it, and the second '?' after a character
TermLen(p, i) ==
    IF i < Len(p) /\ p[i + 1] = "?"
    THEN IF p[i] # "*" /\ i + 1 < Len(p) /\ p[i + 2] = "?" THEN 3 ELSE 2
    ELSE 1

\* new RegExp does not throw: no '?' stands where a term begins
RECURSIVE ParseOk(_, _)
ParseOk(p, i) ==
    i > Len(p) \/ (p[i] # "?" /\ ParseOk(p, i + TermLen(p, i)))

\* regex.test(text) for '^' p '$' with the flag i, from place i of p and
\* place j of text: '.*' matches any string, a character followed by '?'
\* matches itself or nothing, any other character matches itself
RECURSIVE RegexMatch(_, _, _, _)
RegexMatch(p, i, text, j) ==
    IF i > Len(p) THEN j > Len(text)
    ELSE IF p[i] = "*"
         THEN RegexMatch(p, i + TermLen(p, i), text, j)
              \/ (j <= Len(text) /\ RegexMatch(p, i, text, j + 1))
         ELSE \/ TermLen(p, i) > 1 /\ RegexMatch(p, i + TermLen(p, i), text, j)
              \/ /\ j <= Len(text)
                 /\ LowerCase(p[i]) = LowerCase(text[j])
                 /\ RegexMatch(p, i + TermLen(p, i), text, j + 1)

\* try { new RegExp(...).test(text) } catch { false }
RegexTest(pattern, text) == ParseOk(pattern, 1) /\ RegexMatch(pattern, 1, text, 1)

\* Helpers.matchPattern(pattern, text)
MatchPattern(pattern, text) ==
    IF pattern = <<>> \/ text = <<>> THEN FALSE
    ELSE IF pattern = <<"*">> THEN TRUE
         ELSE IF pattern = text THEN TRUE
              ELSE RegexTest(pattern, text)

\* Helpers.findMatchingPattern(patterns, text): the first matching pattern
FindMatchingPattern(patterns, text) ==
    IF text = <<>> THEN [found |-> FALSE, pattern |-> <<>>]
    ELSE LET hits == {k \in 1..Len(patterns) : MatchPattern(patterns[k], text)} IN
         IF hits = {} THEN [found |-> FALSE, pattern |-> <<>>]
         ELSE [found |-> TRUE, pattern |-> patterns[CHOOSE k \in hits : \A j \in hits : k <= j]]

-----------------------------------------------------------------------------
(* Configuration: tenants (tenants.json) and pricing (pricing.json).  Money *)
(* is in micro-dollars, prices in micro-dollars per 1,000 tokens.           *)

Tenant(id, key, enabled, allowed, hasMax, maxUSD) ==
    [id |-> id, key |-> key, enabled |-> enabled, allowedModels |-> allowed,
     hasMax |-> hasMax, maxUSD |-> maxUSD]

NoTenant == Tenant("none", "", FALSE, <<>>, FALSE, 0)

\* tenants.json: t1 may use "*h*" and has limits.daily.maxUSD of 2 micro-dollars,
\* t2 may use "*" and has no limit, t3 is disabled
Tenants ==
    << Tenant("t1", "k1", TRUE,  << <<"*", "h", "*">> >>, TRUE,  2),
       Tenant("t2", "k2", TRUE,  << <<"*">> >>,           FALSE, 0),
       Tenant("t3", "k3", FALSE, << <<"h">> >>,           FALSE, 0) >>

TenantIds == {Tenants[k].id : k \in 1..Len(Tenants)}

\* tenants.find(tenant => tenant.key === key)
GetTenantByKey(key) ==
    LET hits == {k \in 1..Len(Tenants) : Tenants[k].key = key} IN
    IF hits = {} THEN NoTenant ELSE Tenants[CHOOSE k \in hits : \A j \in hits : k <= j]

\* tenants.find(tenant => tenant.id === tenantId)
GetTenant(id) ==
    LET hits == {k \in 1..Len(Tenants) : Tenants[k].id = id} IN
    IF hits = {} THEN NoTenant ELSE Tenants[CHOOSE k \in hits : \A j \in hits : k <= j]

\* the models requests name
ModelH  == <<"h">>
ModelXH == <<"x", "H">>
ModelS  == <<"s">>
NoModel == <<>>

Pricing(pattern, i, o, cc, cr) ==
    [pattern |-> pattern, input |-> i, output |-> o, cacheCreation |-> cc, cacheRead |-> cr]

\* MODEL_PRICING, in the order of its keys: one entry "*h*" with input,
\* output, cacheCreation and cacheRead prices
ModelPricing ==
    << Pricing(<<"*", "h", "*">>, 1000, 1500, 1250, 100) >>

\* Helpers.findMatchingLimits(limitsConfig, modelName): exact key, then the
\* first key that matches as a wildcard
FindMatchingLimits(config, model) ==
    IF model = <<>> THEN [found |-> FALSE, k |-> 0]
    ELSE LET exact == {k \in 1..Len(config) : config[k].pattern = model}
             wild  == {k \in 1..Len(config) : MatchPattern(config[k].pattern, model)}
         IN  IF exact # {} THEN [found |-> TRUE, k |-> CHOOSE k \in exact : TRUE]
             ELSE IF wild # {} THEN [found |-> TRUE, k |-> CHOOSE k \in wild : \A j \in wild : k <= j]
                  ELSE [found |-> FALSE, k |-> 0]

-----------------------------------------------------------------------------
(* FormatConverter (src/src/utils/formatConverter.js) *)

\* server.json "openai": enabled, models (a mapping), defaultModel (<<>> when
\* not configured)
OpenAIConfig(enabled, defaultModel) ==
    [enabled |-> enabled, models |-> << [from |-> <<"g">>, to |-> ModelH] >>,
     defaultModel |-> defaultModel]

\* modelMapping[model]: <<>> when the mapping has no such key
LookupModel(models, model) ==
    LET hits == {k \in 1..Len(models) : models[k].from = model} IN
    IF hits = {} THEN <<>> ELSE models[CHOOSE k \in hits : TRUE].to

\* convertOpenAIToClaude(openaiRequest, modelMapping, defaultModel):
\* model = modelMapping[model] || defaultModel || model, stream = stream || false
ConvertOpenAIToClaude(openaiRequest, modelMapping, defaultModel) ==
    LET mapped      == LookupModel(modelMapping, openaiRequest.model)
        mappedModel == IF mapped # <<>> THEN mapped
                       ELSE IF defaultModel # <<>> THEN defaultModel ELSE openaiRequest.model
    IN  ClaudeRequestDoc(mappedModel, openaiRequest.name = "openai_stream")

\* convertNonStreamingResponse(claudeResponse): JSON.parse, then an object
\* "chat.completion" whatever was parsed; it throws when the parse throws
ConvertNonStreamingResponse(claudeResponse) ==
    LET core == StripLF(claudeResponse) IN
    IF Len(core) = 1 /\ core[1].t \in {"json", "jsonscalar", "errorjson"}
    THEN [threw |-> FALSE,
          doc |-> ChatCompletion(IF core[1].model # <<>> THEN core[1].model ELSE <<"gpt-4">>,
                                 IF core[1].u.present
                                 THEN Usage(core[1].u.i, core[1].u.o, 0, 0) ELSE NoUsage)]
    ELSE [threw |-> TRUE, doc |-> Text]

\* A parsed SSE data object, as far as convertStreamingData reads it: its
\* type and its delta.  A field that is missing is "undefined"; a text or a
\* stop_reason may also be the empty string.
NoDelta == [present |-> FALSE, text |-> "undefined", stop_reason |-> "undefined"]
Delta(text, stop_reason) == [present |-> TRUE, text |-> text, stop_reason |-> stop_reason]
ClaudeData(type, delta) == [type |-> type, delta |-> delta]

\* JavaScript truthiness of a string field
Truthy(v) == v \notin {"undefined", ""}

\* one element of openaiChunk.choices; finish_reason "null" is null
Choice(delta, finish_reason) == [index |-> 0, delta |-> delta, finish_reason |-> finish_reason]
NullChunk == [null |-> TRUE, choices |-> <<>>]
Chunk(choices) == [null |-> FALSE, choices |-> choices]

\* convertStreamingData(claudeData): null, or the chunk with its choices.  A
\* content_block_delta without delta.text enters its branch, pushes nothing
\* and leaves the if chain, so the chunk is returned with no choice
ConvertStreamingChunk(claudeData) ==
    IF claudeData.type = "message_start"
    THEN Chunk(<<Choice([role |-> "assistant", content |-> ""], "null")>>)
    ELSE IF claudeData.type = "content_block_delta"
    THEN IF claudeData.delta.present /\ Truthy(claudeData.delta.text)
         THEN Chunk(<<Choice([content |-> claudeData.delta.text], "null")>>)
         ELSE Chunk(<<>>)
    ELSE IF claudeData.type = "message_delta" /\ claudeData.delta.present
            /\ Truthy(claudeData.delta.stop_reason)
    THEN Chunk(<<Choice(<<>>, IF claudeData.delta.stop_reason = "end_turn" THEN "stop" ELSE "length")>>)
    ELSE IF claudeData.type = "message_stop"
    THEN Chunk(<<Choice(<<>>, "stop")>>)
    ELSE NullChunk

\* the data object of a data line of the model: a content_block_delta line
\* carries a text, a message_delta line a stop_reason
DataOfLine(line) ==
    ClaudeData(line.name,
               CASE line.name = "content_block_delta" -> Delta("t", "undefined")
                 [] line.name = "message_delta"       -> Delta("undefined", "end_turn")
                 [] OTHER                             -> NoDelta)

\* convertStreamingData(claudeData) for a data line: the OpenAI chunk frame,
\* or null (<<>>)
ConvertStreamingData(claudeData) ==
    IF ConvertStreamingChunk(DataOfLine(claudeData)).null
    THEN <<>>
    ELSE <<ChunkFrame(claudeData.name)>>

\* the body of the for loop of convertStreamingResponse: what the lines push
\* on convertedLines.  A "data: " line is converted when the rest of it
\* parses, "event: " lines are skipped, blank lines are kept, any other line
\* is dropped
RECURSIVE ConvertedLines(_)
ConvertedLines(lines) ==
    IF lines = <<>> THEN <<>>
    ELSE LET line == Head(lines)
             rest == ConvertedLines(Tail(lines))
         IN  IF line = <<>> THEN << <<>> >> \o rest
             ELSE IF Head(line).t = "data" /\ Len(line) = 1
                     /\ ConvertStreamingData(line[1]) # <<>>
                  THEN <<ConvertStreamingData(line[1])>> \o rest
                  ELSE rest

\* convertedLines.join('\n')
RECURSIVE JoinLines(_)
JoinLines(lines) ==
    IF lines = <<>> THEN <<>>
    ELSE IF Len(lines) = 1 THEN lines[1]
         ELSE lines[1] \o <<LF>> \o JoinLines(Tail(lines))

\* 'data: [DONE]\n\n'
DoneMessage == <<DoneFrame, LF, LF>>

\* convertStreamingResponse(claudeChunk), one chunk on its own
ConvertStreamingResponse(claudeChunk) ==
    IF \A k \in 1..Len(claudeChunk) : claudeChunk[k].t = "lf" THEN <<>>
    ELSE IF \E k \in 1..Len(claudeChunk) : claudeChunk[k].t = "done_frame" THEN DoneMessage
         ELSE LET convertedLines == ConvertedLines(SplitLines(claudeChunk, <<>>)) IN
              IF convertedLines = <<>> THEN <<>>
              ELSE JoinLines(convertedLines) \o <<LF, LF>>

-----------------------------------------------------------------------------
(* AuthMiddleware *)

AuthHeader(scheme, token) == [scheme |-> scheme, token |-> token]
NoAuthHeader == AuthHeader("none", "")

\* the /i flag of the two Authorization regular expressions
SchemeLower(s) == CASE s = "Bearer" -> "bearer" [] s = "API-Key" -> "api-key" [] OTHER -> s

NoAuthInfo == [found |-> FALSE, type |-> "none", token |-> ""]
AuthInfo(type, token) == [found |-> TRUE, type |-> type, token |-> token]

\* an extractAuthInfo that reads X-Api-Key before Authorization: what C7
\* rules out
ExtractAuthInfoHeaderFirst(r) ==
    IF r.xApiKey # "" THEN AuthInfo("api-key", r.xApiKey)
    ELSE IF r.authorization.scheme # "none" /\ SchemeLower(r.authorization.scheme) = "bearer"
            /\ r.authorization.token # ""
         THEN AuthInfo("bearer", r.authorization.token)
         ELSE IF r.authorization.scheme # "none" /\ SchemeLower(r.authorization.scheme) = "api-key"
                 /\ r.authorization.token # ""
              THEN AuthInfo("api-key", r.authorization.token)
              ELSE IF r.queryKey # "" THEN AuthInfo("api-key", r.queryKey)
                   ELSE NoAuthInfo

\* extractAuthInfo(req): /^Bearer\s+(.+)$/i, /^API-Key\s+(.+)$/i,
\* headers['x-api-key'], query api_key; an absent or empty value is falsy
ExtractAuthInfo(r) ==
    IF r.authorization.scheme # "none" /\ SchemeLower(r.authorization.scheme) = "bearer"
       /\ r.authorization.token # ""
    THEN AuthInfo("bearer", r.authorization.token)
    ELSE IF r.authorization.scheme # "none" /\ SchemeLower(r.authorization.scheme) = "api-key"
            /\ r.authorization.token # ""
         THEN AuthInfo("api-key", r.authorization.token)
         ELSE IF r.xApiKey # "" THEN AuthInfo("api-key", r.xApiKey)
              ELSE IF r.queryKey # "" THEN AuthInfo("api-key", r.queryKey)
                   ELSE NoAuthInfo

AuthFailure(error, statusCode) ==
    [success |-> FALSE, skipAuth |-> FALSE, error |-> error, statusCode |-> statusCode,
     tenant |-> "none", model |-> <<>>]
AuthSuccess(tenant, model) ==
    [success |-> TRUE, skipAuth |-> FALSE, error |-> "none", statusCode |-> 0,
     tenant |-> tenant, model |-> model]
AuthSkip ==
    [success |-> TRUE, skipAuth |-> TRUE, error |-> "none", statusCode |-> 0,
     tenant |-> "none", model |-> <<>>]

\* authenticateTenant(req)
AuthenticateTenant(r) ==
    LET authInfo == ExtractAuthInfo(r) IN
    IF ~authInfo.found THEN AuthFailure("missing_auth", 401)
    ELSE LET tenant == GetTenantByKey(authInfo.token) IN
         IF tenant.id = "none" THEN AuthFailure("invalid_key", 401)
         ELSE IF ~tenant.enabled THEN AuthFailure("tenant_disabled", 403)
              ELSE AuthSuccess(tenant.id, <<>>)

\* checkModelPermission(tenant, model): the error, or "none"
CheckModelPermission(tenant, model) ==
    IF FindMatchingPattern(tenant.allowedModels, model).found THEN "none" ELSE "model_not_allowed"

\* extractModelFromRequest(req, JSON.parse(requestBody)) inside authenticate:
\* an empty body, a body that does not parse and a body without model give null
ExtractModelFromRequest(body) ==
    IF body = <<>> THEN <<>>
    ELSE LET p == JsonParse(body) IN
         IF p.found /\ p.doc.t = "json" THEN p.doc.model ELSE <<>>

\* req.url === '/health' || req.url.startsWith('/admin')
IsBypass(r) == (r.path = "/health" /\ r.queryKey = "") \/ r.path = "/admin"

\* an authenticate that checks the model before tenant.enabled: what C6
\* rules out
AuthenticateModelFirst(r) ==
    IF IsBypass(r) THEN AuthSkip
    ELSE LET authInfo == ExtractAuthInfo(r) IN
         IF ~authInfo.found THEN AuthFailure("missing_auth", 401)
         ELSE LET tenant == GetTenantByKey(authInfo.token)
                  model  == ExtractModelFromRequest(r.body)
              IN  IF tenant.id = "none" THEN AuthFailure("invalid_key", 401)
                  ELSE IF model # <<>> /\ CheckModelPermission(tenant, model) # "none"
                       THEN AuthFailure("model_not_allowed", 403)
                       ELSE IF ~tenant.enabled THEN AuthFailure("tenant_disabled", 403)
                            ELSE AuthSuccess(tenant.id, model)

\* authenticate(req, requestBody)
Authenticate(r) ==
    IF IsBypass(r) THEN AuthSkip
    ELSE LET authResult == AuthenticateTenant(r) IN
         IF ~authResult.success THEN authResult
         ELSE LET model == ExtractModelFromRequest(r.body)
                  check == IF model # <<>>
                           THEN CheckModelPermission(GetTenant(authResult.tenant), model)
                           ELSE "none"
              IN  IF check # "none" THEN AuthFailure(check, 403)
                  ELSE AuthSuccess(authResult.tenant, model)

\* a request whose body has been collected: req.url, the credentials, the
\* body string, req.chunks (the chunks of that body), and the url and body
\* the client sent
Request(path, authorization, xApiKey, queryKey, body) ==
    [path |-> path, authorization |-> authorization, xApiKey |-> xApiKey,
     queryKey |-> queryKey, body |-> body, chunks |-> body,
     arrived |-> [path |-> path, body |-> body]]

Paths == {"/health", "/admin", "/anthropic/v1/messages", "/v1/messages"}
Schemes == {"none", "Bearer", "bearer", "API-Key", "Basic"}
\* credential values: the keys of an enabled and of a disabled tenant, a key
\* of no tenant, and the empty string (header or parameter absent or empty)
Tokens == {"k1", "k3", "bad", ""}

\* request bodies: empty, not JSON, JSON that is no object, objects without
\* and with a model, with and without a usage field
RequestBodies ==
    { <<>>, <<Text>>, <<JsonScalar>>,
      <<JsonDoc(NoModel, NoUsage)>>,
      <<JsonDoc(ModelH, NoUsage)>>,
      <<JsonDoc(ModelXH, NoUsage)>>,
      <<JsonDoc(ModelS, NoUsage)>>,
      <<JsonDoc(ModelH, Usage(0, 0, 0, 0))>>,
      <<JsonDoc(ModelH, Usage(1, 0, 0, 0))>> }

AuthRequests ==
    { Request(p, AuthHeader(s, t), x, q, b) :
        p \in Paths, s \in Schemes, t \in Tokens, x \in Tokens, q \in Tokens,
        b \in RequestBodies }

NoRequest == Request("none", NoAuthHeader, "", "", <<>>)

AuthIdle == authReq = NoRequest /\ authOut = AuthFailure("pending", 0)

\* SpecAuth: authenticate applied to the request under test
AuthenticateStep ==
    /\ authOut.error = "pending"
    /\ authOut' = Authenticate(authReq)
    /\ UNCHANGED <<authReq, lbVars, proxyVars, helperVars, storeVars>>

-----------------------------------------------------------------------------
(* UsageService *)

Days == {1, 2}

\* Math.round(x * 1000000) / 1000000, for x in units of 1/1000 micro-dollar
Round6(nano) == (nano + 500) \div 1000

ZeroCost == [inputCost |-> 0, outputCost |-> 0, cacheCreationCost |-> 0,
             cacheReadCost |-> 0, totalCost |-> 0]

\* a calculateCost whose total is the sum of the rounded components: what
\* C18 as stated describes
CalculateCostWithSumOfRounded(modelPricing, model, t) ==
    LET hit == FindMatchingLimits(modelPricing, model) IN
    IF ~hit.found THEN ZeroCost
    ELSE LET pricing == modelPricing[hit.k]
             i  == Round6(t.inputTokens * pricing.input)
             o  == Round6(t.outputTokens * pricing.output)
             cc == Round6(t.cacheCreationTokens * pricing.cacheCreation)
             cr == Round6(t.cacheReadTokens * pricing.cacheRead)
         IN  [inputCost |-> i, outputCost |-> o, cacheCreationCost |-> cc,
              cacheReadCost |-> cr, totalCost |-> i + o + cc + cr]

\* calculateCost(model, usage) with MODEL_PRICING = modelPricing:
\* tokens / 1000 * price per category
CalculateCostWith(modelPricing, model, t) ==
    LET hit == FindMatchingLimits(modelPricing, model) IN
    IF ~hit.found THEN ZeroCost
    ELSE LET pricing           == modelPricing[hit.k]
             inputCost         == t.inputTokens * pricing.input
             outputCost        == t.outputTokens * pricing.output
             cacheCreationCost == t.cacheCreationTokens * pricing.cacheCreation
             cacheReadCost     == t.cacheReadTokens * pricing.cacheRead
             totalCost         == inputCost + outputCost + cacheCreationCost + cacheReadCost
         IN  [inputCost |-> Round6(inputCost), outputCost |-> Round6(outputCost),
              cacheCreationCost |-> Round6(cacheCreationCost),
              cacheReadCost |-> Round6(cacheReadCost), totalCost |-> Round6(totalCost)]

CalculateCost(model, t) == CalculateCostWith(ModelPricing, model, t)

\* the usageRecord object of recordUsage(tenantId, usage)
UsageRecord(tenantId, usage) ==
    LET cost == CalculateCost(usage.model, usage.tokens) IN
    [requestId |-> usage.requestId, tenantId |-> tenantId, model |-> usage.model,
     tokens |-> usage.tokens,
     totalTokens |-> usage.tokens.inputTokens + usage.tokens.outputTokens
                     + usage.tokens.cacheCreationTokens + usage.tokens.cacheReadTokens,
     cost |-> cost,
     statusCode |-> IF usage.statusCode = 0 THEN 200 ELSE usage.statusCode,
     upstream |-> usage.upstream]

\* A day file is a sequence of lines.  A line is the text of one record, a
\* blank line, or the beginning of a record (a write that was cut short).
NoRecord ==
    UsageRecord("none", [requestId |-> 0, model |-> <<>>, tokens |-> ZeroTokens,
                         statusCode |-> 0, upstream |-> "none"])
\* JSON.stringify(record) + '\n'
StringifyRecord(record) == [t |-> "json", rec |-> record]
BlankLine == [t |-> "blank", rec |-> NoRecord]
TornLine == [t |-> "torn", rec |-> NoRecord]

\* an append that lands in the day file of every tenant: what C2 rules out
AppendToEveryTenant(files, tenantId, day, record) ==
    [t \in DOMAIN files |-> [files[t] EXCEPT ![day] = Append(@, StringifyRecord(record))]]

\* data/usage/{tenantId} and data/usage/{tenantId}/{month}; the days of the
\* model are days of one month
DirsOf(tenantId) == {<<tenantId>>, <<tenantId, "month">>}

\* appendToUsageFile(dailyFile, usageRecord) on the file of (tenantId, day)
AppendToUsageFile(files, tenantId, day, record) ==
    [files EXCEPT ![tenantId][day] = Append(@, StringifyRecord(record))]

\* aggregateUsageRecords(records): the sums the limit guard and the claims read
AggregateUsageRecords(records) ==
    [totalRequests       |-> Len(records),
     totalTokens         |-> SumSeq([k \in 1..Len(records) |-> records[k].totalTokens]),
     inputTokens         |-> SumSeq([k \in 1..Len(records) |-> records[k].tokens.inputTokens]),
     outputTokens        |-> SumSeq([k \in 1..Len(records) |-> records[k].tokens.outputTokens]),
     cacheCreationTokens |-> SumSeq([k \in 1..Len(records) |-> records[k].tokens.cacheCreationTokens]),
     cacheReadTokens     |-> SumSeq([k \in 1..Len(records) |-> records[k].tokens.cacheReadTokens]),
     totalCost           |-> SumSeq([k \in 1..Len(records) |-> records[k].cost.totalCost]),
     inputCost           |-> SumSeq([k \in 1..Len(records) |-> records[k].cost.inputCost]),
     outputCost          |-> SumSeq([k \in 1..Len(records) |-> records[k].cost.outputCost]),
     cacheCreationCost   |-> SumSeq([k \in 1..Len(records) |-> records[k].cost.cacheCreationCost]),
     cacheReadCost       |-> SumSeq([k \in 1..Len(records) |-> records[k].cost.cacheReadCost])]

\* content.trim().split('\n').filter(line => line.trim()).map(line =>
\* JSON.parse(line)): blank lines are dropped, JSON.parse throws on any
\* other line that is not a whole record
ParseUsageFile(lines) ==
    LET kept == SelectSeq(lines, LAMBDA l : l.t # "blank")
        good == SelectSeq(kept, LAMBDA l : l.t = "json")
    IN  [threw |-> Len(good) < Len(kept),
         records |-> [k \in 1..Len(good) |-> good[k].rec]]

\* a getDailyUsage that reads every day file of the tenant: what C17 rules out
GetDailyUsageEveryDay(tenantId, day) ==
    AggregateUsageRecords(ParseUsageFile(usageFiles[tenantId][1] \o usageFiles[tenantId][2]).records)

\* getDailyUsage(tenantId, date) when it returns; a missing file is the
\* empty aggregation
GetDailyUsage(tenantId, day) ==
    AggregateUsageRecords(ParseUsageFile(usageFiles[tenantId][day]).records)

\* getDailyUsage(tenantId, date) rethrows the SyntaxError of JSON.parse
GetDailyUsageThrows(tenantId, day) == ParseUsageFile(usageFiles[tenantId][day]).threw

\* the guard of checkLimitsExceeded on the tenant that getTenant returned:
\* !tenant || !tenant.limits || !tenant.limits.daily || !tenant.limits.daily.maxUSD
HasDailyLimitOf(tenant) ==
    tenant.id # "none" /\ tenant.hasMax /\ tenant.maxUSD # 0

HasDailyLimit(tenantId) == HasDailyLimitOf(GetTenant(tenantId))

\* checkLimitsExceeded(...).exceeded for the tenant that getTenant returned,
\* given the totalCost that getDailyUsage returned
CheckLimitsExceeded(tenant, model, tokensToAdd, currentCost) ==
    /\ HasDailyLimitOf(tenant)
    /\ currentCost + CalculateCost(model, tokensToAdd).totalCost > tenant.maxUSD

\* a check that holds the budget for one request at a time: it also rejects
\* while another request of the tenant is on its way to the upstream
LimitsExceededExclusive(tenantId, model, tokensToAdd, currentCost) ==
    \/ CheckLimitsExceeded(GetTenant(tenantId), model, tokensToAdd, currentCost)
    \/ /\ HasDailyLimit(tenantId)
       /\ \E o \in DOMAIN pc :
             ctx[o].tenant = tenantId /\ pc[o] \in {"wait_response", "streaming", "recording"}

LimitsExceeded(tenantId, model, tokensToAdd, currentCost) ==
    CheckLimitsExceeded(GetTenant(tenantId), model, tokensToAdd, currentCost)

-----------------------------------------------------------------------------
(* ProxyCore *)

Requests == {1, 2}

\* the recordUsage calls of SpecAppend
MaxWriters == 3
Writers == 1..MaxWriters

\* the client response object.  heads, status, wwwAuthenticate, body, error
\* and ends are what reached http.ServerResponse's own writeHead, write and
\* end (error is the error named by a JSON error body passed to end).  patch
\* says which functions the OpenAI layer has put in place of them ("none",
\* "stream", "json_hold" for proxy.js:407-485, "json_pass" for
\* openaiCompat.js:96-149) and responseData is what the patched write has
\* collected.  askedStatus and askedError are the status and the error body
\* ProxyCore last passed to res.writeHead and res.end.  requestId is the id
\* the patched functions were created with.  closed: the client has
\* disconnected.
FreshRes == [heads |-> 0, status |-> 0, error |-> "none", errorRequestId |-> 0,
             wwwAuthenticate |-> FALSE, body |-> <<>>, ends |-> 0,
             patch |-> "none", responseData |-> <<>>, requestId |-> 0,
             askedStatus |-> 0, askedError |-> "none", closed |-> FALSE]

\* http.ServerResponse.writeHead / write / end / end(JSON error body)
OriginalWriteHead(rs, status) == [rs EXCEPT !.heads = @ + 1, !.status = status]
OriginalWrite(rs, text) == [rs EXCEPT !.body = @ \o text]
OriginalEnd(rs) == [rs EXCEPT !.ends = @ + 1]
OriginalEndJson(rs, error, requestId) ==
    [rs EXCEPT !.ends = @ + 1, !.error = error, !.errorRequestId = requestId]

\* res.writeHead(status, headers) as ProxyCore calls it: the function of
\* proxy.js:415-418 swallows the call, that of proxy.js:517-524 and
\* openaiCompat.js:180-188 passes the status on
ResWriteHead(rs, status) ==
    LET asked == [rs EXCEPT !.askedStatus = status] IN
    IF rs.patch = "json_hold" THEN asked ELSE OriginalWriteHead(asked, status)

\* a write of the decoded copy instead of the chunk: what C5 rules out
ResWriteDecoded(rs, chunk) == [rs EXCEPT !.body = @ \o ChunkToString(chunk)]

\* a write that holds the chunk back: what C14 rules out
ResWriteHeld(rs, chunk) == rs

\* res.write(chunk) as ProxyCore calls it
ResWrite(rs, chunk) ==
    CASE rs.patch = "stream" ->
             LET convertedChunk == ConvertStreamingResponse(ChunkToString(chunk)) IN
             IF convertedChunk # <<>> THEN OriginalWrite(rs, convertedChunk) ELSE rs
      [] rs.patch \in {"json_hold", "json_pass"} ->
             [rs EXCEPT !.responseData = @ \o ChunkToString(chunk)]
      [] OTHER -> OriginalWrite(rs, chunk)

\* the end(data) put in place by handleStreamingRequest that writes [DONE]
\* twice: what C13 rules out
StreamingEndDoneTwice(rs, data) ==
    LET written == IF data # <<>> THEN ResWrite(rs, data) ELSE rs IN
    OriginalEnd(OriginalWrite(OriginalWrite(written, DoneMessage), DoneMessage))

\* the end(data) put in place by handleStreamingRequest (proxy.js:549-559,
\* openaiCompat.js:214-226)
StreamingEnd(rs, data) ==
    LET written == IF data # <<>> THEN ResWrite(rs, data) ELSE rs IN
    OriginalEnd(OriginalWrite(written, DoneMessage))

\* the end(data) put in place by handleNonStreamingRequest: convert what was
\* collected, put the original functions back, answer
NonStreamingEnd(rs, data) ==
    LET converted == ConvertNonStreamingResponse(rs.responseData \o data)
        restored  == [rs EXCEPT !.patch = "none", !.responseData = @ \o data]
    IN  IF rs.patch = "json_hold"
        THEN \* proxy.js:431-485
             IF ~converted.threw
             THEN OriginalEnd(OriginalWrite(OriginalWriteHead(restored, 200), <<converted.doc>>))
             ELSE OriginalEndJson(OriginalWriteHead(restored, 500), "internal_error", rs.requestId)
        ELSE \* openaiCompat.js:107-149; end() without writeHead sends status 200
             IF ~converted.threw
             THEN OriginalEnd(OriginalWrite(IF restored.heads = 0
                                            THEN OriginalWriteHead(restored, 200)
                                            ELSE restored,
                                            <<converted.doc>>))
             ELSE IF restored.heads = 0
                  THEN OriginalEndJson(OriginalWriteHead(restored, 500), "internal_error", rs.requestId)
                  ELSE OriginalEnd(restored)

\* an end() that does not end the response: what C15 rules out
ResEndSkipped(rs) == rs

\* res.end() as ProxyCore calls it
ResEnd(rs) ==
    CASE rs.patch = "stream" -> StreamingEnd(rs, <<>>)
      [] rs.patch \in {"json_hold", "json_pass"} -> NonStreamingEnd(rs, <<>>)
      [] OTHER -> OriginalEnd(rs)

\* res.end(JSON.stringify(error body, null, 2)) as ProxyCore calls it
ResEndJson(rs, error, requestId) ==
    LET asked == [rs EXCEPT !.askedError = error] IN
    CASE rs.patch = "stream" -> StreamingEnd(asked, <<ErrorJson(error)>>)
      [] rs.patch \in {"json_hold", "json_pass"} ->
             NonStreamingEnd(asked, <<ErrorJson(error)>>)
      [] OTHER -> OriginalEndJson(asked, error, requestId)

\* sendErrorResponse(res, authResult, requestId); generateErrorResponse adds
\* WWW-Authenticate on 401
SendErrorResponse(rs, error, statusCode, requestId) ==
    LET head == ResWriteHead(rs, statusCode) IN
    ResEndJson(IF head.heads > rs.heads
               THEN [head EXCEPT !.wwwAuthenticate = (statusCode = 401)] ELSE head,
               error, requestId)

\* handleSpecialRoutes(req, res, requestId): /health, else 404
HandleSpecialRoutes(rs, r, requestId) ==
    IF r.path = "/health" /\ r.queryKey = ""
    THEN ResEndJson(ResWriteHead(rs, 200), "health", requestId)
    ELSE ResEndJson(ResWriteHead(rs, 404), "not_found", requestId)

NoCtx == [tenant |-> "none", model |-> <<>>, upstream |-> "none",
          upstreamStatus |-> 0, destroyed |-> FALSE, recordDay |-> 0]

\* the requests the pipeline is driven with
ProxyRequests ==
    { Request("/health", NoAuthHeader, "", "", <<>>),
      Request("/admin", NoAuthHeader, "", "", <<>>),
      Request("/anthropic/v1/messages", NoAuthHeader, "", "", <<JsonDoc(ModelH, NoUsage)>>),
      Request("/anthropic/v1/messages", AuthHeader("Bearer", "bad"), "", "", <<JsonDoc(ModelH, NoUsage)>>),
      Request("/anthropic/v1/messages", AuthHeader("Bearer", "k3"), "", "", <<JsonDoc(ModelH, NoUsage)>>),
      Request("/anthropic/v1/messages", AuthHeader("Bearer", "k1"), "", "", <<JsonDoc(ModelS, NoUsage)>>),
      Request("/anthropic/v1/messages", AuthHeader("Bearer", "k1"), "", "", <<JsonDoc(ModelH, NoUsage)>>),
      Request("/anthropic/v1/messages", AuthHeader("Bearer", "k1"), "", "", <<JsonDoc(ModelH, Usage(0, 0, 0, 0))>>),
      Request("/v1/messages", NoAuthHeader, "k2", "", <<>>) }

\* upstream responses: status and body
SseBody == << EventLine("message_delta"), LF,
             TypedDataLine("message_delta", NoUsage, Usage(0, 2, 0, 0)) >>
UpstreamResponses ==
    { [status |-> 200, body |-> <<JsonDoc(NoModel, Usage(2, 1, 0, 0))>>],
      [status |-> 200, body |-> SseBody],
      [status |-> 200, body |-> <<LeadByte, ContByte>>],
      [status |-> 500, body |-> <<JsonDoc(NoModel, NoUsage)>>] }

ProxyFreshOver(files) ==
    /\ req = [r \in Requests |-> NoRequest]
    /\ pc = [r \in Requests |-> "new"]
    /\ ctx = [r \in Requests |-> NoCtx]
    /\ snapshot = [r \in Requests |-> 0]
    /\ upstreamOpened = [r \in Requests |-> 0]
    /\ upstreamSent = [r \in Requests |-> <<>>]
    /\ upstreamLeft = [r \in Requests |-> <<>>]
    /\ upstreamGot = [r \in Requests |-> <<>>]
    /\ responseBody = [r \in Requests |-> <<>>]
    /\ res = [r \in Requests |-> FreshRes]
    /\ usageFiles = files
    /\ today = 1
    /\ dirs = UNION { IF \E d \in Days : files[t][d] # <<>> THEN DirsOf(t) ELSE {} : t \in TenantIds }
    /\ writers = [w \in Writers |-> "idle"]

\* no usage has been recorded yet
ProxyFresh == ProxyFreshOver([t \in TenantIds |-> [d \in Days |-> <<>>]])

HelperIdle == helperIn = <<>> /\ helperOut = <<>>

\* collectRequestBody: the request and its whole body have arrived
Arrive(r) ==
    /\ pc[r] = "new"
    /\ \E q \in ProxyRequests : req' = [req EXCEPT ![r] = q]
    /\ pc' = [pc EXCEPT ![r] = "auth"]
    /\ UNCHANGED <<ctx, snapshot, upstreamOpened, upstreamSent, upstreamLeft, upstreamGot,
                   responseBody, res, usageFiles, today, lbVars, authVars, helperVars, storeVars>>

\* handleRequest from selectUpstream on (proxy.js:57-75) with proxyRequest up
\* to proxyReq.end() (proxy.js:100-188).  `c` is the context so far; `throws`
\* says whether building the upstream request throws inside proxyRequest's
\* try: http.request rejects a protocol other than http:/https: (an upstream
\* url such as ftp://host passes validateUpstream) and a header value with a
\* control character (the upstream key), setTimeout rejects a missing timeout.
SelectAndProxy(r, c, rnd, throws) ==
    LET sel == SelectUpstream(rnd) IN
    /\ lbResult' = [threw |-> sel.threw, id |-> sel.id, calls |-> lbResult.calls + 1]
    /\ currentIndex' = sel.index
    /\ weightCounters' = sel.counters
    /\ UNCHANGED <<lbConfig, upstreams, healthStatus, selections, timerVars>>
    /\ IF sel.threw
       THEN \* catch of handleRequest
            /\ res' = [res EXCEPT ![r] = SendErrorResponse(@, "internal_error", 500, r)]
            /\ pc' = [pc EXCEPT ![r] = "done"]
            /\ ctx' = [ctx EXCEPT ![r] = c]
            /\ UNCHANGED <<upstreamOpened, upstreamSent>>
       ELSE IF throws
            THEN \* catch of proxyRequest: log and resolve
                 /\ pc' = [pc EXCEPT ![r] = "done"]
                 /\ ctx' = [ctx EXCEPT ![r] = [c EXCEPT !.upstream = sel.id]]
                 /\ UNCHANGED <<res, upstreamOpened, upstreamSent>>
            ELSE /\ upstreamOpened' = [upstreamOpened EXCEPT ![r] = @ + 1]
                 /\ upstreamSent' = [upstreamSent EXCEPT ![r] = req[r].chunks]
                 /\ pc' = [pc EXCEPT ![r] = "wait_response"]
                 /\ ctx' = [ctx EXCEPT ![r] = [c EXCEPT !.upstream = sel.id]]
                 /\ UNCHANGED res

\* if (model) { usage = extractTokenUsage(requestBody); if (usage) ... }
LimitGuardApplies(model, body) == model # <<>> /\ ExtractTokenUsage(body).found

\* handleRequest after the body is collected: authenticate, the early
\* returns, and, when the limit guard is not called, selection and proxying
Authenticated(r) ==
    /\ pc[r] = "auth"
    /\ LET a == Authenticate(req[r]) IN
       IF ~a.success
       THEN /\ res' = [res EXCEPT ![r] = SendErrorResponse(@, a.error, a.statusCode, r)]
            /\ pc' = [pc EXCEPT ![r] = "done"]
            /\ UNCHANGED <<ctx, upstreamOpened, upstreamSent, lbVars>>
       ELSE IF a.skipAuth
            THEN /\ res' = [res EXCEPT ![r] = HandleSpecialRoutes(@, req[r], r)]
                 /\ pc' = [pc EXCEPT ![r] = "done"]
                 /\ UNCHANGED <<ctx, upstreamOpened, upstreamSent, lbVars>>
            ELSE LET c == [NoCtx EXCEPT !.tenant = a.tenant, !.model = a.model] IN
                 IF LimitGuardApplies(a.model, req[r].body)
                 THEN /\ ctx' = [ctx EXCEPT ![r] = c]
                      /\ pc' = [pc EXCEPT ![r] = "limit"]
                      /\ UNCHANGED <<res, upstreamOpened, upstreamSent, lbVars>>
                 ELSE \E rnd \in DrawsOf(lbConfig), throws \in BOOLEAN :
                          SelectAndProxy(r, c, rnd, throws)
    /\ UNCHANGED <<req, snapshot, upstreamLeft, upstreamGot, responseBody, usageFiles, today, authVars, helperVars, storeVars>>

\* checkLimitsExceeded: for a tenant with a daily limit,
\* getDailyUsage(tenantId, today) returns, or throws into the catch of
\* handleRequest (proxy.js:67-75); a tenant without one is not read
LimitRead(r) ==
    /\ pc[r] = "limit"
    /\ IF HasDailyLimit(ctx[r].tenant) /\ GetDailyUsageThrows(ctx[r].tenant, today)
       THEN /\ res' = [res EXCEPT ![r] = SendErrorResponse(@, "internal_error", 500, r)]
            /\ pc' = [pc EXCEPT ![r] = "done"]
            /\ UNCHANGED snapshot
       ELSE /\ snapshot' = [snapshot EXCEPT ![r] = GetDailyUsage(ctx[r].tenant, today).totalCost]
            /\ pc' = [pc EXCEPT ![r] = "limit_read"]
            /\ UNCHANGED res
    /\ UNCHANGED <<req, ctx, upstreamOpened, upstreamSent, upstreamLeft, upstreamGot,
                   responseBody, usageFiles, today, lbVars, authVars, helperVars, storeVars>>

\* a handler that selects the upstream before it looks at the outcome of the
\* limit check: what C39 rules out
LimitCheckedSelectFirst(r) ==
    /\ pc[r] = "limit_read"
    /\ IF LimitsExceeded(ctx[r].tenant, ctx[r].model,
                         ExtractTokenUsage(req[r].body).tokens, snapshot[r])
       THEN \E rnd \in DrawsOf(lbConfig) :
                LET sel == SelectUpstream(rnd) IN
                /\ lbResult' = [threw |-> sel.threw, id |-> sel.id, calls |-> lbResult.calls + 1]
                /\ currentIndex' = sel.index
                /\ weightCounters' = sel.counters
                /\ res' = [res EXCEPT ![r] = SendErrorResponse(@, "limit_exceeded", 429, r)]
                /\ pc' = [pc EXCEPT ![r] = "done"]
                /\ UNCHANGED <<ctx, upstreamOpened, upstreamSent, lbConfig, upstreams,
                               healthStatus, selections, timerVars>>
       ELSE \E rnd \in DrawsOf(lbConfig), throws \in BOOLEAN :
                SelectAndProxy(r, ctx[r], rnd, throws)
    /\ UNCHANGED <<req, snapshot, upstreamLeft, upstreamGot, responseBody, usageFiles, today, authVars, helperVars, storeVars>>

\* checkLimitsExceeded returns to handleRequest: 429, or selection and proxying
LimitChecked(r) ==
    /\ pc[r] = "limit_read"
    /\ IF LimitsExceeded(ctx[r].tenant, ctx[r].model,
                         ExtractTokenUsage(req[r].body).tokens, snapshot[r])
       THEN /\ res' = [res EXCEPT ![r] = SendErrorResponse(@, "limit_exceeded", 429, r)]
            /\ pc' = [pc EXCEPT ![r] = "done"]
            /\ UNCHANGED <<ctx, upstreamOpened, upstreamSent, lbVars>>
       ELSE \E rnd \in DrawsOf(lbConfig), throws \in BOOLEAN :
                SelectAndProxy(r, ctx[r], rnd, throws)
    /\ UNCHANGED <<req, snapshot, upstreamLeft, upstreamGot, responseBody, usageFiles, today, authVars, helperVars, storeVars>>


\* the callback of proxyModule.request: res.writeHead(proxyRes.statusCode, ...),
\* for an upstream that answers with one of `responses`
UpstreamResponseFrom(r, responses) ==
    /\ pc[r] = "wait_response"
    /\ \E up \in responses :
          /\ res' = [res EXCEPT ![r] = ResWriteHead(@, up.status)]
          /\ ctx' = [ctx EXCEPT ![r].upstreamStatus = up.status]
          /\ upstreamLeft' = [upstreamLeft EXCEPT ![r] = up.body]
    /\ pc' = [pc EXCEPT ![r] = "streaming"]
    /\ UNCHANGED <<req, snapshot, upstreamOpened, upstreamSent, upstreamGot, responseBody,
                   usageFiles, today, lbVars, authVars, helperVars, storeVars>>

UpstreamResponse(r) == UpstreamResponseFrom(r, UpstreamResponses)

\* proxyRes.on('data'): the next chunk is any non-empty prefix of what is left
UpstreamData(r) ==
    /\ pc[r] = "streaming"
    /\ upstreamLeft[r] # <<>>
    /\ \E n \in 1..Len(upstreamLeft[r]) :
          LET chunk == SubSeq(upstreamLeft[r], 1, n) IN
          /\ upstreamGot' = [upstreamGot EXCEPT ![r] = @ \o chunk]
          /\ upstreamLeft' = [upstreamLeft EXCEPT ![r] = SubSeq(@, n + 1, Len(@))]
          /\ responseBody' = [responseBody EXCEPT ![r] = @ \o ChunkToString(chunk)]
          /\ res' = [res EXCEPT ![r] = ResWrite(@, chunk)]
    /\ UNCHANGED <<req, pc, ctx, snapshot, upstreamOpened, upstreamSent, usageFiles, today,
                   lbVars, authVars, helperVars, storeVars>>

\* proxyRes.on('end') up to the first await inside usageService.recordUsage:
\* res.end(), then the record is built with the date of this moment
UpstreamEnd(r) ==
    /\ pc[r] = "streaming"
    /\ upstreamLeft[r] = <<>>
    /\ res' = [res EXCEPT ![r] = ResEnd(@)]
    /\ IF ctx[r].tenant # "none"
       THEN /\ ctx' = [ctx EXCEPT ![r].recordDay = today]
            /\ pc' = [pc EXCEPT ![r] = "recording"]
       ELSE /\ pc' = [pc EXCEPT ![r] = "done"]
            /\ UNCHANGED ctx
    /\ UNCHANGED <<req, snapshot, upstreamOpened, upstreamSent, upstreamLeft, upstreamGot,
                   responseBody, usageFiles, today, lbVars, authVars, helperVars, storeVars>>

\* the usage object ProxyCore.recordUsage hands to the usage service
ProxyUsage(r) ==
    LET model      == IF ctx[r].model # <<>> THEN ctx[r].model ELSE ExtractModelFromBody(req[r].body)
        tokenUsage == ExtractTokenUsage(responseBody[r])
    IN  [requestId |-> r,
         model |-> IF model # <<>> THEN model ELSE <<"unknown">>,
         tokens |-> IF tokenUsage.found THEN tokenUsage.tokens ELSE ZeroTokens,
         statusCode |-> ctx[r].upstreamStatus,
         upstream |-> ctx[r].upstream]

\* a recordUsage that drops the record when no usage was extracted
RecordAppendUnlessNoUsage(r) ==
    /\ pc[r] = "recording"
    /\ usageFiles' = IF ExtractTokenUsage(responseBody[r]).found
                     THEN AppendToUsageFile(usageFiles, ctx[r].tenant, ctx[r].recordDay,
                                            UsageRecord(ctx[r].tenant, ProxyUsage(r)))
                     ELSE usageFiles
    /\ dirs' = dirs \cup DirsOf(ctx[r].tenant)
    /\ pc' = [pc EXCEPT ![r] = "done"]
    /\ UNCHANGED <<req, ctx, snapshot, upstreamOpened, upstreamSent, upstreamLeft, upstreamGot,
                   responseBody, res, today, lbVars, authVars, helperVars, writers>>

\* usageService.recordUsage: the directories are there, appendFile
\* completes, recordUsage returns and the promise of proxyRequest resolves
RecordAppend(r) ==
    /\ pc[r] = "recording"
    /\ usageFiles' = AppendToUsageFile(usageFiles, ctx[r].tenant, ctx[r].recordDay,
                                       UsageRecord(ctx[r].tenant, ProxyUsage(r)))
    /\ dirs' = dirs \cup DirsOf(ctx[r].tenant)
    /\ pc' = [pc EXCEPT ![r] = "done"]
    /\ UNCHANGED <<req, ctx, snapshot, upstreamOpened, upstreamSent, upstreamLeft, upstreamGot,
                   responseBody, res, today, lbVars, authVars, helperVars, writers>>

\* an 'error' handler that answers nothing: what C10 rules out
ErrorHandlerSilent(rs, requestId) == rs

\* the 'error' handler of proxyReq: 502 unless the headers were sent
ErrorHandler(rs, requestId) ==
    IF rs.heads = 0
    THEN ResEndJson(ResWriteHead(rs, 502), "upstream_error", requestId)
    ELSE rs

\* proxyReq.on('error') for a connection error, then resolve
UpstreamError(r) ==
    /\ pc[r] \in {"wait_response", "streaming"}
    /\ res' = [res EXCEPT ![r] = ErrorHandler(@, r)]
    /\ pc' = [pc EXCEPT ![r] = "done"]
    /\ UNCHANGED <<req, ctx, snapshot, upstreamOpened, upstreamSent, upstreamLeft, upstreamGot,
                   responseBody, usageFiles, today, lbVars, authVars, helperVars, storeVars>>

\* proxyReq.setTimeout(this.config.timeout, ...): log and proxyReq.destroy().
\* The destroyed request delivers nothing more.  Before the response started
\* it emits 'error' (socket hang up), which runs the handler above; once the
\* headers were forwarded the handler, if it runs at all, writes nothing.
UpstreamTimeout(r) ==
    /\ pc[r] \in {"wait_response", "streaming"}
    /\ ctx' = [ctx EXCEPT ![r].destroyed = TRUE]
    /\ res' = [res EXCEPT ![r] = ErrorHandler(@, r)]
    /\ pc' = [pc EXCEPT ![r] = "done"]
    /\ UNCHANGED <<req, snapshot, upstreamOpened, upstreamSent, upstreamLeft, upstreamGot,
                   responseBody, usageFiles, today, lbVars, authVars, helperVars, storeVars>>

\* the client closes its connection before the response has ended.  Nothing
\* in proxyRequest listens for it.  A handler waiting in collectRequestBody
\* is released only if the request then emits 'error' (resolve('') at
\* proxy.js:93-96); whether it does depends on the Node.js version.
ClientDisconnect(r) ==
    /\ pc[r] \notin {"new", "done"}
    /\ ~res[r].closed
    /\ res[r].ends = 0
    /\ res' = [res EXCEPT ![r].closed = TRUE]
    /\ IF pc[r] = "inner_body"
       THEN \E emitsError \in BOOLEAN :
                pc' = [pc EXCEPT ![r] = IF emitsError THEN "auth" ELSE "inner_body"]
       ELSE UNCHANGED pc
    /\ UNCHANGED <<req, ctx, snapshot, upstreamOpened, upstreamSent, upstreamLeft, upstreamGot,
                   responseBody, usageFiles, today, lbVars, authVars, helperVars, storeVars>>

-----------------------------------------------------------------------------
(* OpenAICompatLayer (src/src/core/openaiCompat.js and the copy of the class *)
(* in src/src/core/proxy.js:299-633)                                        *)

OpenAIPath == "/openai/v1/chat/completions"

\* the two copies of the class
CompatLayers == {"proxy.js", "openaiCompat.js"}

OpenAIConfigs == {OpenAIConfig(e, d) : e \in BOOLEAN, d \in {NoModel, ModelS}}

\* bodies of OpenAI requests: a mapped model with and without stream, a
\* model the mapping does not have, text that is not JSON, JSON such as 42
OpenAIBodies ==
    { <<OpenAIRequestDoc(<<"g">>, TRUE)>>, <<OpenAIRequestDoc(<<"g">>, FALSE)>>,
      <<OpenAIRequestDoc(ModelS, TRUE)>>, <<Text>>, <<JsonScalar>> }

OpenAIRequests ==
    { Request(OpenAIPath, AuthHeader("Bearer", t), "", "", b) :
        t \in {"k1", "bad", "k3"}, b \in OpenAIBodies }

\* OpenAICompatLayer.sendErrorResponse(res, error, requestId)
CompatSendErrorResponse(rs, error, statusCode, requestId) ==
    OriginalEndJson(OriginalWriteHead(rs, statusCode), error, requestId)

\* handleOpenAICompatRequest(req, res) up to the await inside
\* proxyCore.handleRequest: the layer collects the body until 'end', parses
\* and converts it, sets req.url and req.chunks, replaces the functions of
\* res and calls handleRequest, whose collectRequestBody puts its listeners
\* on the request that has already ended
OpenAIArrive(r) ==
    /\ pc[r] = "new"
    /\ \E q \in OpenAIRequests, config \in OpenAIConfigs, layer \in CompatLayers :
          LET openaiRequest == JsonParse(q.body) IN
          IF ~config.enabled
          THEN /\ req' = [req EXCEPT ![r] = q]
               /\ res' = [res EXCEPT ![r] = CompatSendErrorResponse(@, "service_unavailable", 503, r)]
               /\ pc' = [pc EXCEPT ![r] = "done"]
          ELSE IF ~openaiRequest.found
               THEN /\ req' = [req EXCEPT ![r] = q]
                    /\ res' = [res EXCEPT ![r] = CompatSendErrorResponse(@, "invalid_request_error", 400, r)]
                    /\ pc' = [pc EXCEPT ![r] = "done"]
               ELSE LET claudeRequest == ConvertOpenAIToClaude(openaiRequest.doc, config.models,
                                                               config.defaultModel)
                    IN  /\ req' = [req EXCEPT ![r] = [q EXCEPT !.path = "/anthropic/v1/messages",
                                                               !.chunks = <<claudeRequest>>,
                                                               !.body = <<>>]]
                        /\ res' = [res EXCEPT ![r] =
                                      [@ EXCEPT !.requestId = r,
                                                !.patch = IF claudeRequest.name = "stream" THEN "stream"
                                                          ELSE IF layer = "proxy.js" THEN "json_hold"
                                                               ELSE "json_pass"]]
                        /\ pc' = [pc EXCEPT ![r] = "inner_body"]
    /\ UNCHANGED <<ctx, snapshot, upstreamOpened, upstreamSent, upstreamLeft, upstreamGot,
                   responseBody, usageFiles, today, lbVars, authVars, helperVars, storeVars>>

\* the UTC date changes
Midnight ==
    /\ today = 1
    /\ today' = 2
    /\ UNCHANGED <<req, pc, ctx, snapshot, upstreamOpened, upstreamSent, upstreamLeft,
                   upstreamGot, responseBody, res, usageFiles, lbVars, authVars, helperVars, storeVars>>

-----------------------------------------------------------------------------
(* LoadBalancer actions *)

\* a call of selectUpstream on its own
SelectStep(rnd) ==
    LET sel == SelectUpstream(rnd) IN
    /\ lbResult' = [threw |-> sel.threw, id |-> sel.id, calls |-> lbResult.calls + 1]
    /\ currentIndex' = sel.index
    /\ weightCounters' = sel.counters
    /\ UNCHANGED <<lbConfig, upstreams, healthStatus, timerVars>>

\* SpecLB: selectUpstream(requestId)
LBSelect ==
    /\ lbResult.calls < MaxLBCalls
    /\ \E rnd \in DrawsOf(lbConfig) : SelectStep(rnd)
    /\ UNCHANGED <<selections, authVars, proxyVars, helperVars, storeVars>>

\* SpecWRR: selectUpstream(requestId), the returned ids kept in order
WRRSelect ==
    /\ Len(selections) < MaxSelections
    /\ \E rnd \in DrawsOf(lbConfig) : SelectStep(rnd)
    /\ selections' = Append(selections, lbResult'.id)
    /\ UNCHANGED <<authVars, proxyVars, helperVars, storeVars>>

\* checkUpstreamHealth(upstream) completes for one of this.upstreams:
\* updateHealthStatus(upstream.id, isHealthy).  Probes run only when
\* startHealthCheck found healthCheckEnabled.
ProbeResult ==
    /\ lbConfig.healthCheckEnabled
    /\ \E k \in 1..Len(upstreams), isHealthy \in BOOLEAN :
          UpdateHealthStatus(upstreams[k].id, isHealthy)
    /\ UNCHANGED <<lbConfig, upstreams, currentIndex, weightCounters, lbResult, selections, timerVars,
                   authVars, proxyVars, helperVars, storeVars>>

-----------------------------------------------------------------------------
(* Specifications *)

LBConfig(ups, strategy, hc, fo) ==
    [upstreams |-> ups, strategy |-> strategy, healthCheckEnabled |-> hc, failoverEnabled |-> fo]

\* SpecWRR: one to three enabled upstreams, every weight the validator
\* accepts up to MaxWeight, weighted_round_robin, no health checks
WRRConfigs ==
    { LBConfig([k \in 1..n |-> MkUpstream(k, w[k], TRUE)], "weighted_round_robin", FALSE, FALSE) :
        n \in 1..Len(UpstreamIds), w \in [1..Len(UpstreamIds) -> 0..MaxWeight] }

InitWRR ==
    /\ \E cfg \in WRRConfigs : LBFresh(cfg)
    /\ AuthIdle
    /\ ProxyFresh
    /\ HelperIdle

NextWRR == WRRSelect

SpecWRR == InitWRR /\ [][NextWRR]_vars

\* SpecLB: three upstreams, each enabled or not, two weight vectors, every
\* strategy name, health checks and failover on or off
LBWeights == {<<3, 1, 2>>, <<1, 0, 1>>}
LBConfigs ==
    { LBConfig([k \in 1..Len(UpstreamIds) |-> MkUpstream(k, w[k], e[k])], s, hc, fo) :
        w \in LBWeights, e \in [1..Len(UpstreamIds) -> BOOLEAN], s \in Strategies,
        hc \in BOOLEAN, fo \in BOOLEAN }

InitLB ==
    /\ \E cfg \in LBConfigs : LBFresh(cfg)
    /\ AuthIdle
    /\ ProxyFresh
    /\ HelperIdle

NextLB == LBSelect \/ ProbeResult

SpecLB == InitLB /\ [][NextLB]_vars

\* SpecAuth
InitAuth ==
    /\ authReq \in AuthRequests
    /\ authOut = AuthFailure("pending", 0)
    /\ LBFresh(LBConfig(<<MkUpstream(1, 1, TRUE)>>, "round_robin", FALSE, FALSE))
    /\ ProxyFresh
    /\ HelperIdle

NextAuth == AuthenticateStep

SpecAuth == InitAuth /\ [][NextAuth]_vars

\* Spec: one enabled upstream, health checks and failover on or off, two
\* requests
ProxyLBConfigs ==
    { LBConfig(<<MkUpstream(1, 1, TRUE)>>, "weighted_round_robin", hc, fo) :
        hc \in BOOLEAN, fo \in BOOLEAN }

Init ==
    /\ \E cfg \in ProxyLBConfigs : LBFresh(cfg)
    /\ AuthIdle
    /\ ProxyFresh
    /\ HelperIdle

Next ==
    \/ \E r \in Requests : Arrive(r)
    \/ \E r \in Requests : Authenticated(r)
    \/ \E r \in Requests : LimitRead(r)
    \/ \E r \in Requests : LimitChecked(r)
    \/ \E r \in Requests : UpstreamResponse(r)
    \/ \E r \in Requests : UpstreamData(r)
    \/ \E r \in Requests : UpstreamEnd(r)
    \/ \E r \in Requests : RecordAppend(r)
    \/ \E r \in Requests : UpstreamTimeout(r)
    \/ \E r \in Requests : UpstreamError(r)
    \/ ProbeResult
    \/ Midnight

Spec == Init /\ [][Next]_vars

\* a helper function is called once with one argument
HelperCall(in, out) ==
    /\ helperIn = <<>>
    /\ helperIn' = <<in>>
    /\ helperOut' = <<out>>
    /\ UNCHANGED <<lbVars, authVars, proxyVars, storeVars>>

\* SpecCost: calculateCost applied to a model and token counts, under a
\* price table.  Prices are per 1K tokens in micro-dollars, which is per
\* token in units of 1/1000 micro-dollar.
MaxTokens == 3

PriceTables ==
    { << Pricing(<<"*", "h", "*">>, 1000, 1500, 1250, 100) >>,
      << Pricing(<<"*", "h", "*">>, 250, 1250, 300, 30) >>,
      << Pricing(<<"*", "h", "*">>, 3000, 15000, 3750, 300) >> }

TokenCounts ==
    [inputTokens : 0..MaxTokens, outputTokens : 0..MaxTokens,
     cacheCreationTokens : 0..MaxTokens, cacheReadTokens : 0..MaxTokens]

InitCost ==
    /\ LBFresh(LBConfig(<<MkUpstream(1, 1, TRUE)>>, "weighted_round_robin", FALSE, FALSE))
    /\ AuthIdle
    /\ ProxyFresh
    /\ HelperIdle

CalculateCostCall ==
    \E modelPricing \in PriceTables, model \in {ModelH, ModelXH, ModelS}, t \in TokenCounts :
        HelperCall([modelPricing |-> modelPricing, model |-> model, usage |-> t],
                   CalculateCostWith(modelPricing, model, t))

NextCost == CalculateCostCall

SpecCost == InitCost /\ [][NextCost]_vars

\* SpecTokens: extractTokenUsage applied to a response body: an SSE stream
\* that opens with message_start and goes on with up to MaxEvents events, a
\* JSON document, or other text.
MaxEvents == 3
MaxOutputTokens == 2

\* event: <name> LF data: <data> LF LF
SseEvent(name, data) == <<EventLine(name), LF>> \o data \o <<LF, LF>>

MessageStarts ==
    { SseEvent("message_start", <<TypedDataLine("message_start", mu, NoUsage)>>) :
        mu \in {NoUsage, Usage(1, 1, 0, 0), Usage(2, 0, 1, 1)} }

StreamEvents ==
    { SseEvent("message_delta", <<TypedDataLine("message_delta", NoUsage, Usage(0, o, 0, 0))>>) :
        o \in 0..MaxOutputTokens }
    \cup { SseEvent("message_delta", <<TypedDataLine("message_delta", NoUsage, NoUsage)>>),
           SseEvent("content_block_delta", <<TypedDataLine("content_block_delta", NoUsage, NoUsage)>>),
           SseEvent("ping", <<>>) }

RECURSIVE JoinEvents(_)
JoinEvents(events) ==
    IF events = <<>> THEN <<>> ELSE Head(events) \o JoinEvents(Tail(events))

SseBodies ==
    { start \o JoinEvents(events) :
        start \in MessageStarts,
        events \in UNION {[1..n -> StreamEvents] : n \in 0..MaxEvents} }

JsonBodies ==
    { <<JsonDoc(ModelH, u)>> : u \in {NoUsage, Usage(0, 0, 0, 0), Usage(1, 2, 0, 1), Usage(0, 0, 2, 0)} }
    \cup { <<JsonDoc(ModelH, Usage(3, 1, 0, 0)), LF>>, <<JsonScalar>> }

OtherBodies ==
    { <<>>, <<LF>>, SseEvent("ping", <<TypedDataLine("ping", NoUsage, NoUsage)>>),
      <<Text>>, <<Text, LF, Text>> }

InitTokens ==
    /\ LBFresh(LBConfig(<<MkUpstream(1, 1, TRUE)>>, "weighted_round_robin", FALSE, FALSE))
    /\ AuthIdle
    /\ ProxyFresh
    /\ HelperIdle

ExtractTokenUsageCall ==
    \E responseBody_ \in SseBodies \cup JsonBodies \cup OtherBodies :
        HelperCall([responseBody |-> responseBody_], ExtractTokenUsage(responseBody_))

NextTokens == ExtractTokenUsageCall

SpecTokens == InitTokens /\ [][NextTokens]_vars

\* SpecClient: one request with its client.  The request comes in on the
\* Anthropic paths or on the OpenAI path, and the client may disconnect.
ClientRequests == {1}

InitClient ==
    /\ \E cfg \in ProxyLBConfigs : LBFresh(cfg)
    /\ AuthIdle
    /\ ProxyFresh
    /\ HelperIdle

NextClient ==
    \/ \E r \in ClientRequests : Arrive(r)
    \/ \E r \in ClientRequests : OpenAIArrive(r)
    \/ \E r \in ClientRequests : ClientDisconnect(r)
    \/ \E r \in ClientRequests : Authenticated(r)
    \/ \E r \in ClientRequests : LimitRead(r)
    \/ \E r \in ClientRequests : LimitChecked(r)
    \/ \E r \in ClientRequests : UpstreamResponse(r)
    \/ \E r \in ClientRequests : UpstreamData(r)
    \/ \E r \in ClientRequests : UpstreamEnd(r)
    \/ \E r \in ClientRequests : RecordAppend(r)
    \/ \E r \in ClientRequests : UpstreamTimeout(r)
    \/ \E r \in ClientRequests : UpstreamError(r)
    \/ ProbeResult

SpecClient == InitClient /\ [][NextClient]_vars

\* SpecLimit: one request arrives when today's files already hold up to
\* MaxLines lines: records of earlier requests, blank lines, and lines cut
\* short by a write that did not complete.
MaxLines == 2

EarlierRecord(tenantId) ==
    UsageRecord(tenantId, [requestId |-> 3, model |-> ModelH,
                           tokens |-> [ZeroTokens EXCEPT !.inputTokens = 1],
                           statusCode |-> 200, upstream |-> "A"])

LineKinds == UNION { [1..n -> {"json", "blank", "torn"}] : n \in 0..MaxLines }

DayFile(tenantId, kinds) ==
    [k \in 1..Len(kinds) |->
        CASE kinds[k] = "json"  -> StringifyRecord(EarlierRecord(tenantId))
          [] kinds[k] = "blank" -> BlankLine
          [] OTHER              -> TornLine]

InitLimit ==
    /\ \E cfg \in ProxyLBConfigs : LBFresh(cfg)
    /\ AuthIdle
    /\ \E kinds \in LineKinds :
          ProxyFreshOver([t \in TenantIds |->
                            [d \in Days |-> IF d = 1 THEN DayFile(t, kinds) ELSE <<>>]])
    /\ HelperIdle

NextLimit ==
    \/ \E r \in ClientRequests : Arrive(r)
    \/ \E r \in ClientRequests : Authenticated(r)
    \/ \E r \in ClientRequests : LimitRead(r)
    \/ \E r \in ClientRequests : LimitChecked(r)
    \/ \E r \in ClientRequests : UpstreamResponse(r)
    \/ \E r \in ClientRequests : UpstreamData(r)
    \/ \E r \in ClientRequests : UpstreamEnd(r)
    \/ \E r \in ClientRequests : RecordAppend(r)
    \/ \E r \in ClientRequests : UpstreamTimeout(r)
    \/ \E r \in ClientRequests : UpstreamError(r)
    \/ ProbeResult

SpecLimit == InitLimit /\ [][NextLimit]_vars

-----------------------------------------------------------------------------
(* Properties *)

\* C1: every request handled by handleRequest gets its response headers
\* exactly once and exactly one body, written and ended, on every path; no
\* path leaves the client without a response or writes the headers twice.
C1_ExactlyOneResponse ==
    \A r \in Requests :
        /\ res[r].heads <= 1
        /\ res[r].ends <= 1
        /\ pc[r] = "done" => (res[r].heads = 1 /\ res[r].ends = 1)

\* where the usage store holds a record of request r: <<tenant, day, index>>
RecordPlaces(r) ==
    UNION { UNION { { <<t, d, k>> : k \in {j \in 1..Len(usageFiles[t][d]) :
                                              usageFiles[t][d][j].rec.requestId = r} } :
                    d \in Days } : t \in TenantIds }

\* the upstream response of request r ended: the forwarded response was ended
ResponseEnded(r) == upstreamOpened[r] = 1 /\ res[r].ends = 1 /\ res[r].error = "none"

OverLimit(r) ==
    LET a == Authenticate(req[r]) IN
    /\ a.success /\ ~a.skipAuth /\ a.model # <<>>
    /\ GetTenant(a.tenant).hasMax
    /\ GetDailyUsage(a.tenant, today).totalCost > GetTenant(a.tenant).maxUSD

\* C3: while a request that names a model comes from a tenant whose recorded
\* spend for today already exceeds its maxUSD, no step of its handler opens an
\* upstream request, and the handler finishes with 429 limit_exceeded.
C3_OverLimitRejected ==
    [][\A r \in Requests :
          (pc[r] \in {"auth", "limit", "limit_read"} /\ OverLimit(r))
             => /\ upstreamOpened'[r] = 0
                /\ pc'[r] = "done" => (res'[r].status = 429 /\ res'[r].error = "limit_exceeded")]_vars

\* how often id was returned by the len calls starting with call number from
WindowCount(id, from, len) == Cardinality({k \in from..(from + len - 1) : selections[k] = id})

\* C4: under weighted_round_robin over a fixed candidate list, from fresh
\* counters, every window of (sum of the configured weights) consecutive
\* selections returns candidate i exactly weight[i] times.
C4_EveryWindowExact ==
    LET total == SumSeq([k \in 1..Len(upstreams) |-> upstreams[k].weight]) IN
    total > 0 =>
        \A from \in 1..(Len(selections) - total + 1) :
            \A k \in 1..Len(upstreams) :
                WindowCount(upstreams[k].id, from, total) = upstreams[k].weight

\* C5: on the /anthropic path what was written to the client is what was
\* received from the upstream so far, in order, whatever the chunking, and
\* with what is still to come it is the upstream's body; the decoded copy
\* kept for usage extraction plays no part.
C5_PassThrough ==
    \A r \in Requests :
        req[r].path = "/anthropic/v1/messages" =>
            /\ res[r].body = upstreamGot[r]
            /\ ctx[r].upstreamStatus # 0 =>
                  \E up \in UpstreamResponses :
                      /\ up.status = res[r].status
                      /\ res[r].body \o upstreamLeft[r] = up.body

\* C5 happens: a two-byte character split over two chunks reached the client
\* intact while the decoded copy holds two replacement characters
C5_Witness ==
    \E r \in Requests :
        /\ req[r].path = "/anthropic/v1/messages"
        /\ pc[r] = "done" /\ res[r].ends = 1
        /\ res[r].body = <<LeadByte, ContByte>>
        /\ responseBody[r] = <<Replacement, Replacement>>

\* the model a request body names, read off the body itself
NamedModel(body) == IF Len(body) = 1 /\ body[1].t = "json" THEN body[1].model ELSE <<>>

\* the tenants.json entries with this key
TenantsWithKey(key) == {k \in 1..Len(Tenants) : Tenants[k].key = key}

FailedWith(out, error, statusCode) ==
    ~out.success /\ out.error = error /\ out.statusCode = statusCode

\* C6: outside the bypass paths authenticate returns the first failing check
\* in the order missing_auth (401), invalid_key (401), tenant_disabled (403),
\* model_not_allowed (403), and succeeds only when none applies; a body
\* without a model skips the model check.
C6_FirstFailingCheck ==
    (authOut.error # "pending" /\ ~IsBypass(authReq)) =>
        LET info == ExtractAuthInfo(authReq)
            hits == TenantsWithKey(info.token)
            m    == NamedModel(authReq.body)
        IN  IF ~info.found THEN FailedWith(authOut, "missing_auth", 401)
            ELSE IF hits = {} THEN FailedWith(authOut, "invalid_key", 401)
            ELSE LET t == Tenants[CHOOSE k \in hits : TRUE] IN
                 IF ~t.enabled THEN FailedWith(authOut, "tenant_disabled", 403)
                 ELSE IF m # <<>> /\ \A j \in 1..Len(t.allowedModels) :
                                         ~MatchPattern(t.allowedModels[j], m)
                      THEN FailedWith(authOut, "model_not_allowed", 403)
                      ELSE authOut.success /\ ~authOut.skipAuth /\ authOut.tenant = t.id

\* C6 happens: a disabled tenant asked for a model it is not allowed
C6_Witness ==
    /\ authReq.path = "/anthropic/v1/messages"
    /\ ExtractAuthInfo(authReq).token = "k3"
    /\ authReq.body = <<JsonDoc(ModelS, NoUsage)>>
    /\ FailedWith(authOut, "tenant_disabled", 403)

\* the token of the first source that has one: Authorization Bearer,
\* Authorization API-Key, X-Api-Key, api_key; "" when no source has one
ExpectedToken(r) ==
    IF r.authorization.scheme \in {"Bearer", "bearer"} /\ r.authorization.token # ""
    THEN r.authorization.token
    ELSE IF r.authorization.scheme = "API-Key" /\ r.authorization.token # ""
         THEN r.authorization.token
         ELSE IF r.xApiKey # "" THEN r.xApiKey ELSE r.queryKey

\* C7: the tenant lookup uses the token of the first source that yields one
\* in the order Bearer, API-Key, X-Api-Key, api_key; a later source is not
\* consulted once an earlier one yielded a token, even an invalid one, and an
\* Authorization header of another scheme falls through.
C7_TokenPriority ==
    (authOut.error # "pending" /\ ~IsBypass(authReq)) =>
        LET tok  == ExpectedToken(authReq)
            hits == TenantsWithKey(tok)
        IN  /\ (tok = "") <=> FailedWith(authOut, "missing_auth", 401)
            /\ (tok # "" /\ hits = {}) <=> FailedWith(authOut, "invalid_key", 401)
            /\ (tok # "" /\ hits # {} /\ ~Tenants[CHOOSE k \in hits : TRUE].enabled)
                  <=> FailedWith(authOut, "tenant_disabled", 403)
            /\ authOut.success => authOut.tenant = Tenants[CHOOSE k \in hits : TRUE].id

\* C7 happens: an invalid Bearer token beside a valid X-Api-Key and api_key
C7_Witness ==
    /\ authReq.path = "/anthropic/v1/messages"
    /\ authReq.authorization = AuthHeader("Bearer", "bad")
    /\ authReq.xApiKey = "k1" /\ authReq.queryKey = "k1"
    /\ FailedWith(authOut, "invalid_key", 401)

\* the ids of the upstreams the loaded configuration enables
EnabledIds == {lbConfig.upstreams[k].id : k \in {j \in 1..Len(lbConfig.upstreams) :
                                                     lbConfig.upstreams[j].enabled}}

\* there are enabled upstreams and each is marked unhealthy
AllMarkedUnhealthy == EnabledIds # {} /\ \A id \in EnabledIds : healthStatus[id] = "unhealthy"

\* the next step of request r's handler is the call of selectUpstream
Selecting(r) ==
    \/ /\ pc[r] = "auth"
       /\ LET a == Authenticate(req[r]) IN
          a.success /\ ~a.skipAuth /\ ~LimitGuardApplies(a.model, req[r].body)
    \/ /\ pc[r] = "limit_read"
       /\ ~LimitsExceeded(ctx[r].tenant, ctx[r].model,
                          ExtractTokenUsage(req[r].body).tokens, snapshot[r])

\* C8: with health checks on, failover off and every enabled upstream marked
\* unhealthy, an authenticated request is answered 503 no_upstream and no
\* upstream request is opened.
C8_NoUpstreamIs503 ==
    [][\A r \in Requests :
          (/\ Selecting(r) /\ pc'[r] # pc[r]
           /\ lbConfig.healthCheckEnabled /\ ~lbConfig.failoverEnabled
           /\ AllMarkedUnhealthy)
             => /\ res'[r].status = 503 /\ res'[r].error = "no_upstream"
                /\ upstreamOpened'[r] = 0]_vars

\* C9: with health checks on, failover on and every enabled upstream marked
\* unhealthy, a call of selectUpstream does not throw and returns one of the
\* enabled upstreams, whatever the strategy.
C9_FailoverReturnsEnabled ==
    [][(/\ lbResult'.calls = lbResult.calls + 1
        /\ lbConfig.healthCheckEnabled /\ lbConfig.failoverEnabled
        /\ AllMarkedUnhealthy)
          => (~lbResult'.threw /\ lbResult'.id \in EnabledIds)]_vars

\* C9 happens: a call returned while every enabled upstream was unhealthy
C9_Witness ==
    /\ lbResult.calls > 0
    /\ lbConfig.healthCheckEnabled /\ lbConfig.failoverEnabled
    /\ AllMarkedUnhealthy
    /\ Cardinality(EnabledIds) > 1
    /\ ~lbResult.threw /\ lbResult.id \in EnabledIds

\* C10: when the upstream request fails (error, or the timeout destroys it)
\* before anything was written to the client, the client gets one response,
\* 502 with a JSON body of type upstream_error carrying the requestId, and no
\* second upstream request is opened.
C10_UpstreamError502 ==
    [][\A r \in Requests :
          (pc[r] = "wait_response" /\ res[r].heads = 0 /\ res[r].body = <<>> /\ pc'[r] = "done")
             => /\ res'[r].heads = 1 /\ res'[r].ends = 1
                /\ res'[r].status = 502
                /\ res'[r].error = "upstream_error"
                /\ res'[r].errorRequestId = r
                /\ upstreamOpened'[r] = 1]_vars

\* C10 happens: the timeout fired before the upstream answered
C10_Witness ==
    \E r \in Requests :
        /\ pc[r] = "done" /\ ctx[r].destroyed
        /\ upstreamOpened[r] = 1
        /\ res[r].heads = 1 /\ res[r].ends = 1 /\ res[r].status = 502
        /\ res[r].error = "upstream_error" /\ res[r].errorRequestId = r

\* request r came in on the OpenAI path and was handed to ProxyCore
ViaOpenAI(r) == req[r].arrived.path = OpenAIPath /\ req[r].path = "/anthropic/v1/messages"

\* C11: for a request on /openai/v1/chat/completions with a valid JSON body,
\* the handler never waits for a request body that was already consumed, and
\* the body ProxyCore reads is the body it forwards: the translated request
\* with the mapped model, never the OpenAI body and never an empty body.
C11_TranslatedBodyRead ==
    \A r \in Requests :
        ViaOpenAI(r) =>
            /\ pc[r] # "inner_body"
            /\ req[r].body = req[r].chunks
            /\ req[r].body # <<>>
            /\ req[r].body # req[r].arrived.body
            /\ \E config \in OpenAIConfigs :
                  req[r].chunks = <<ConvertOpenAIToClaude(JsonParse(req[r].arrived.body).doc,
                                                          config.models, config.defaultModel)>>

\* ProxyCore answered request r with an error: an error body of its own, or
\* the upstream's status outside 2xx
WrappedProxyError(r) ==
    res[r].askedError # "none" \/ (res[r].askedStatus # 0 /\ res[r].askedStatus \notin 200..299)

\* C12: on the OpenAI path, when the wrapped proxy produces an error (401,
\* 403, 429, 502, or an upstream status outside 2xx) the ended client
\* response has that status and a JSON error body: no chat.completion, and
\* no event stream from which the error body is missing.
C12_ErrorsReachClient ==
    \A r \in Requests :
        (ViaOpenAI(r) /\ res[r].ends > 0 /\ WrappedProxyError(r)) =>
            /\ res[r].status = res[r].askedStatus
            /\ \/ res[r].error # "none"
               \/ \E k \in 1..Len(res[r].body) : res[r].body[k].t \in {"json", "errorjson"}
            /\ \A k \in 1..Len(res[r].body) : res[r].body[k].t # "chat.completion"

C14_ChunkWrittenOnArrival ==
    [][\A r \in Requests :
          req[r].path = "/anthropic/v1/messages" =>
             /\ (pc[r] = "streaming" /\ upstreamGot[r] # <<>>)
                   => Len(res[r].body) = Len(upstreamGot[r])
             /\ Len(upstreamGot'[r]) > Len(upstreamGot[r])
                   => res'[r].body = res[r].body \o
                         SubSeq(upstreamGot'[r], Len(upstreamGot[r]) + 1, Len(upstreamGot'[r]))]_vars

\* C14 happens: the first part of a body is with the client, the rest is
\* still to come
C14_Witness ==
    \E r \in Requests :
        /\ req[r].path = "/anthropic/v1/messages" /\ pc[r] = "streaming"
        /\ upstreamGot[r] # <<>> /\ upstreamLeft[r] # <<>>
        /\ res[r].body = upstreamGot[r] /\ res[r].ends = 0

\* C15: within a request a body write happens only after the header write,
\* and the usage record is appended only after the last body write and the
\* end of the response: the appending step finds the upstream body delivered
\* and the response ended, and nothing is written from then on.
C15_HeadBodyEndRecord ==
    [][\A r \in Requests :
          /\ Len(res'[r].body) > Len(res[r].body) => res[r].heads = 1
          /\ (RecordPlaces(r) = {} /\ RecordPlaces(r)' # {})
                => /\ res[r].ends = 1 /\ upstreamLeft[r] = <<>>
                   /\ res[r].body = upstreamGot[r]
                   /\ res'[r] = res[r]
          /\ RecordPlaces(r) # {} => res'[r] = res[r]]_vars

\* C15 happens: headers, a body in two writes, the end, then the record
C15_Witness ==
    \E r \in Requests :
        /\ RecordPlaces(r) # {}
        /\ res[r].heads = 1 /\ res[r].ends = 1
        /\ res[r].body = SseBody

\* the record recordUsage built for request r
RecordOf(r) == UsageRecord(ctx[r].tenant, ProxyUsage(r))

\* the requests whose recordUsage has returned, for tenant t on day d
RecordedFor(t, d) ==
    {r \in Requests : pc[r] = "done" /\ ctx[r].recordDay = d /\ ctx[r].tenant = t}

\* the sum of f over the records of the requests in rs: f is a field of the
\* tokens ("tokens"), of the costs ("cost") or of the record itself ("")
SumRecorded(rs, part, field) ==
    SumSeq([r \in 1..Cardinality(Requests) |->
               IF r \in rs
               THEN CASE part = "tokens" -> RecordOf(r).tokens[field]
                      [] part = "cost"   -> RecordOf(r).cost[field]
                      [] OTHER           -> RecordOf(r)[field]
               ELSE 0])

\* C17: once recordUsage has returned, getDailyUsage of the record's tenant
\* and day counts it: for every tenant and day the aggregation has the
\* number, the token sums and the cost sums of exactly the records appended
\* for that tenant and day.
C17_DailyUsageIsTheRecords ==
    \A t \in TenantIds, d \in Days :
        LET usage == GetDailyUsage(t, d)
            rs    == RecordedFor(t, d)
        IN  /\ ~GetDailyUsageThrows(t, d)
            /\ usage.totalRequests = Cardinality(rs)
            /\ usage.totalTokens = SumRecorded(rs, "", "totalTokens")
            /\ usage.inputTokens = SumRecorded(rs, "tokens", "inputTokens")
            /\ usage.outputTokens = SumRecorded(rs, "tokens", "outputTokens")
            /\ usage.cacheCreationTokens = SumRecorded(rs, "tokens", "cacheCreationTokens")
            /\ usage.cacheReadTokens = SumRecorded(rs, "tokens", "cacheReadTokens")
            /\ usage.totalCost = SumRecorded(rs, "cost", "totalCost")
            /\ usage.inputCost = SumRecorded(rs, "cost", "inputCost")
            /\ usage.outputCost = SumRecorded(rs, "cost", "outputCost")
            /\ usage.cacheCreationCost = SumRecorded(rs, "cost", "cacheCreationCost")
            /\ usage.cacheReadCost = SumRecorded(rs, "cost", "cacheReadCost")

\* C17 happens: one tenant has a record on each day, with different tokens
C17_Witness ==
    \E t \in TenantIds :
        /\ GetDailyUsage(t, 1).totalRequests = 1
        /\ GetDailyUsage(t, 2).totalRequests = 1
        /\ GetDailyUsage(t, 1).totalTokens > 0
        /\ GetDailyUsage(t, 1).totalTokens # GetDailyUsage(t, 2).totalTokens
        /\ \A r \in Requests : pc[r] = "done"

\* C16: once the client has disconnected while the upstream response is
\* streaming, the proxy takes no further upstream chunk and the upstream
\* connection is closed: no step receives a chunk for a request whose client
\* is gone.
C16_DisconnectAbortsUpstream ==
    [][\A r \in Requests :
          (res[r].closed /\ pc[r] = "streaming")
             => upstreamGot'[r] = upstreamGot[r]]_vars

\* the four components of a call of calculateCost before rounding, in units
\* of 1/1000 micro-dollar
UnroundedCosts(in) ==
    LET hit == FindMatchingLimits(in.modelPricing, in.model) IN
    IF ~hit.found THEN <<0, 0, 0, 0>>
    ELSE LET pricing == in.modelPricing[hit.k] IN
         << in.usage.inputTokens * pricing.input,
            in.usage.outputTokens * pricing.output,
            in.usage.cacheCreationTokens * pricing.cacheCreation,
            in.usage.cacheReadTokens * pricing.cacheRead >>

SumOfReturnedComponents(cost) ==
    cost.inputCost + cost.outputCost + cost.cacheCreationCost + cost.cacheReadCost

\* C18 (as amended): the four returned components are each rounded to 6
\* decimals, and the returned totalCost is the sum of the unrounded
\* components rounded once; it differs from the sum of the returned
\* components by at most 2 micro-dollars.
C18_TotalIsUnroundedSumRoundedOnce ==
    helperIn # <<>> =>
        LET in   == helperIn[1]
            cost == helperOut[1]
            raw  == UnroundedCosts(in)
            gap  == cost.totalCost - SumOfReturnedComponents(cost)
        IN  /\ cost.inputCost = Round6(raw[1])
            /\ cost.outputCost = Round6(raw[2])
            /\ cost.cacheCreationCost = Round6(raw[3])
            /\ cost.cacheReadCost = Round6(raw[4])
            /\ cost.totalCost = Round6(raw[1] + raw[2] + raw[3] + raw[4])
            /\ gap \in -2..2

\* C18 happens: a priced model whose total is not the sum of its returned
\* components
C18_Witness ==
    /\ helperIn # <<>>
    /\ helperOut[1].totalCost > 0
    /\ helperOut[1].totalCost # SumOfReturnedComponents(helperOut[1])

\* C18 as stated: the returned totalCost is the sum of the four returned
\* components (an integer number of micro-dollars, so rounding it to 6
\* decimals changes nothing).
C18_TotalIsSumOfReturnedComponents ==
    helperIn # <<>> =>
        helperOut[1].totalCost = Round6(1000 * SumOfReturnedComponents(helperOut[1]))

\* the name of the event a unit of a body belongs to: that of the nearest
\* "event: " line before it
EventOfUnit(body, k) ==
    LET before == {j \in 1..k : body[j].t = "event"} IN
    IF before = {} THEN "" ELSE body[CHOOSE j \in before : \A i \in before : i <= j].name

\* the positions of the data lines of message_delta events that carry usage
DeltaUsagePlaces(body) ==
    {k \in 1..Len(body) :
        body[k].t = "data" /\ body[k].u.present /\ EventOfUnit(body, k) = "message_delta"}

\* the positions at which a body carries any usage object
UsagePlaces(body) ==
    {k \in 1..Len(body) : body[k].u.present \/ body[k].mu.present}

\* C19: for an SSE body that opens with message_start and has message_delta
\* events with usage, the output-token count extractTokenUsage returns is
\* that of the last such message_delta (null counting as 0, and null being
\* returned exactly when no count of the usage that won is positive); for a
\* JSON document with a usage object it returns that object's counts; for
\* a body with no usage object it returns null.
C19_LastMessageDeltaWins ==
    helperIn # <<>> =>
        LET body   == helperIn[1].responseBody
            out    == helperOut[1]
            deltas == DeltaUsagePlaces(body)
            last   == CHOOSE k \in deltas : \A j \in deltas : j <= k
            parsed == ParseRequestBody(body)
        IN  /\ (LooksLikeSSE(body) /\ deltas # {})
                  => /\ out.tokens.outputTokens = body[last].u.o
                     /\ out.found = (body[last].u.o > 0)
            /\ (parsed.found /\ parsed.doc.t = "json" /\ parsed.doc.u.present)
                  => out = SomeTokens(TokensOf(parsed.doc.u))
            /\ UsagePlaces(body) = {} => out = NullTokens

\* C19 happens: a stream with two message_delta usages of different counts,
\* another event after them, and the later count returned
C19_Witness ==
    /\ helperIn # <<>>
    /\ LET body   == helperIn[1].responseBody
           deltas == DeltaUsagePlaces(body)
       IN  /\ \E j, k \in deltas : j < k /\ body[j].u.o > body[k].u.o /\ body[k].u.o > 0
                                    /\ \A i \in deltas : i <= k
           /\ body[Len(body) - 3].t = "event" /\ body[Len(body) - 3].name = "ping"
           /\ body[1].name = "message_start" /\ body[3].mu.present
           /\ helperOut[1].found

\* the records on the well-formed lines of a day file
WellFormedRecords(lines) ==
    LET good == SelectSeq(lines, LAMBDA l : l.t = "json") IN
    [k \in 1..Len(good) |-> good[k].rec]

\* C20: getDailyUsage skips blank and unparseable lines: the preflight limit
\* check of a request always comes back with the aggregation of exactly
\* the well-formed records of today's file, and does not turn the request
\* into an error.
C20_MalformedLinesSkipped ==
    [][\A r \in Requests :
          (pc[r] = "limit" /\ pc'[r] # "limit" /\ HasDailyLimit(ctx[r].tenant))
             => /\ pc'[r] = "limit_read"
                /\ res'[r] = res[r]
                /\ snapshot'[r] =
                      AggregateUsageRecords(
                          WellFormedRecords(usageFiles[ctx[r].tenant][today])).totalCost]_vars

\* what weightedRoundRobinSelection returns and leaves behind for the
\* candidates of the present state
WeightedRoundRobinHere ==
    LET c == CandidatesOf(lbConfig) IN
    IF c.none THEN Threw(currentIndex, weightCounters)
    ELSE WeightedRoundRobinSelection(c.list, currentIndex, weightCounters)

\* C22: under every strategy name other than round_robin,
\* weighted_round_robin and random, a call of selectUpstream returns what
\* weighted_round_robin returns on the same candidates and counters, and
\* leaves the same counters behind.
C22_OtherNamesAreWeightedRoundRobin ==
    [][(/\ lbResult'.calls = lbResult.calls + 1
        /\ lbConfig.strategy \notin {"round_robin", "weighted_round_robin", "random"})
          => /\ lbResult'.threw = WeightedRoundRobinHere.threw
             /\ lbResult'.id = WeightedRoundRobinHere.id
             /\ weightCounters' = WeightedRoundRobinHere.counters
             /\ currentIndex' = WeightedRoundRobinHere.index]_vars

\* C22 restricted to the names the switch does not know
C22_UnknownNamesAreWeightedRoundRobin ==
    [][(/\ lbResult'.calls = lbResult.calls + 1
        /\ lbConfig.strategy \in {"least_connections", "undefined"})
          => /\ lbResult'.threw = WeightedRoundRobinHere.threw
             /\ lbResult'.id = WeightedRoundRobinHere.id
             /\ weightCounters' = WeightedRoundRobinHere.counters
             /\ currentIndex' = WeightedRoundRobinHere.index]_vars

\* the counter of candidate k before a selection: 0 when there are no
\* counters yet
CounterBefore(k) ==
    IF weightCounters.null THEN 0 ELSE weightCounters.m[upstreams[k].id].v

\* the counter of candidate k once its configured weight has been added
CounterAdded(k) == CounterBefore(k) + upstreams[k].weight

\* the first candidate in list order whose raised counter is maximal
FirstMaximal ==
    CHOOSE k \in 1..Len(upstreams) :
        /\ \A j \in 1..Len(upstreams) : CounterAdded(j) <= CounterAdded(k)
        /\ \A j \in 1..(k - 1) : CounterAdded(j) < CounterAdded(k)

\* the selections smooth weighted round-robin makes for weights 3 and 1
SmoothOrder31 == <<"A", "A", "B", "A", "A", "A", "B", "A">>

\* C23: each weighted_round_robin selection adds w[i] to the counter of every
\* candidate, returns the first candidate in list order whose counter is
\* maximal and subtracts the sum of the weights from that candidate's
\* counter; for A (weight 3) before B (weight 1) the selections from fresh
\* counters are A A B A A A B A.
C23_SmoothWeightedRoundRobin ==
    /\ [][Len(selections') = Len(selections) + 1
            => LET sumw == SumSeq([k \in 1..Len(upstreams) |-> upstreams[k].weight]) IN
               /\ lbResult'.id = upstreams[FirstMaximal].id
               /\ \A k \in 1..Len(upstreams) :
                     weightCounters'.m[upstreams[k].id] =
                         Num(CounterAdded(k) - (IF k = FirstMaximal THEN sumw ELSE 0))]_vars
    /\ []((/\ Len(upstreams) = 2
           /\ upstreams[1].weight = 3 /\ upstreams[2].weight = 1)
             => selections = SubSeq(SmoothOrder31, 1, Len(selections)))

\* C23 for candidate lists in which every configured weight is positive
C23_SmoothWithPositiveWeights ==
    [][(/\ Len(selections') = Len(selections) + 1
        /\ \A k \in 1..Len(upstreams) : upstreams[k].weight > 0)
          => LET sumw == SumSeq([k \in 1..Len(upstreams) |-> upstreams[k].weight]) IN
             /\ lbResult'.id = upstreams[FirstMaximal].id
             /\ \A k \in 1..Len(upstreams) :
                   weightCounters'.m[upstreams[k].id] =
                       Num(CounterAdded(k) - (IF k = FirstMaximal THEN sumw ELSE 0))]_vars

\* the run of the example: eight selections over A (weight 3), B (weight 1)
C23_ExampleRun ==
    /\ Len(upstreams) = 2 /\ upstreams[1].weight = 3 /\ upstreams[2].weight = 1
    /\ selections = SmoothOrder31

\* the enabled upstreams whose status is healthy or unknown
NotMarkedUnhealthy == SelectSeq(upstreams, LAMBDA u : healthStatus[u.id] \in {"healthy", "undefined"})

\* C24: with health checks enabled, a call of selectUpstream made while some
\* enabled upstream is not marked unhealthy does not throw and returns an
\* upstream that is not marked unhealthy; the call selects among the
\* upstreams whose status is healthy or unknown alike.
C24_UnhealthyNotSelected ==
    [][(/\ lbResult'.calls = lbResult.calls + 1
        /\ lbConfig.healthCheckEnabled
        /\ \E k \in 1..Len(upstreams) : healthStatus[upstreams[k].id] # "unhealthy")
          => /\ ~lbResult'.threw
             /\ healthStatus[lbResult'.id] # "unhealthy"
             /\ \E rnd \in DrawsOf(lbConfig) :
                   LET sel == StrategySwitch(StrategyOf(lbConfig), NotMarkedUnhealthy,
                                             currentIndex, weightCounters, rnd) IN
                   /\ lbResult'.id = sel.id
                   /\ currentIndex' = sel.index
                   /\ weightCounters' = sel.counters]_vars

\* a never-probed upstream was returned although it is listed after an
\* upstream marked unhealthy
C24_Witness ==
    /\ lbConfig.healthCheckEnabled
    /\ lbResult.calls = 1
    /\ ~lbResult.threw
    /\ healthStatus[lbResult.id] = "undefined"
    /\ Len(upstreams) >= 2
    /\ healthStatus[upstreams[1].id] = "unhealthy"
    /\ lbResult.id # upstreams[1].id

-----------------------------------------------------------------------------
(* SpecReload: reload(), destroy(), the probe timer and the probes it starts *)

MaxTimers == 2

\* clearInterval that cancels nothing
ClearIntervalNoop(ts, h) == ts
\* clearInterval(this.healthCheckInterval)
ClearInterval(ts, h) == ts \ {h}

\* if (this.healthCheckInterval) clearInterval(this.healthCheckInterval)
ClearHeld == IF healthCheckInterval # 0 THEN ClearInterval(timers, healthCheckInterval) ELSE timers

\* a reload that keeps the counters and the index
ReloadFieldsKept(cfg) ==
    [upstreams |-> EnabledUpstreams(cfg), weightCounters |-> weightCounters,
     currentIndex |-> currentIndex]
\* reload(): updateUpstreams(); this.weightCounters = null; this.currentIndex = 0
ReloadFields(cfg) ==
    [upstreams |-> EnabledUpstreams(cfg), weightCounters |-> NullCounters, currentIndex |-> 0]

\* app.reload(): configManager.reloadConfig() reads `cfg`, then
\* proxyCore.reload() calls loadBalancer.reload(); all synchronous
Reload(cfg) ==
    LET f == ReloadFields(cfg)
        t == StartHealthCheck(cfg, f.upstreams, healthCheckInterval, ClearHeld, probesInFlight) IN
    /\ cfg.healthCheckEnabled => healthCheckInterval < MaxTimers
    /\ lbConfig' = cfg
    /\ upstreams' = f.upstreams
    /\ weightCounters' = f.weightCounters
    /\ currentIndex' = f.currentIndex
    /\ healthCheckInterval' = t.healthCheckInterval
    /\ timers' = t.timers
    /\ probesInFlight' = t.probesInFlight
    /\ selections' = <<>>
    /\ UNCHANGED <<healthStatus, lbResult, authVars, proxyVars, helperVars, storeVars>>

\* destroy()
Destroy ==
    /\ timers' = ClearHeld
    /\ UNCHANGED <<lbConfig, upstreams, currentIndex, healthStatus, weightCounters, lbResult,
                   selections, healthCheckInterval, probesInFlight,
                   authVars, proxyVars, helperVars, storeVars>>

\* an active interval timer fires: performHealthCheck()
TimerFires ==
    /\ timers # {}
    /\ probesInFlight' = probesInFlight \cup IdsOf(upstreams)
    /\ UNCHANGED <<lbConfig, upstreams, currentIndex, healthStatus, weightCounters, lbResult,
                   selections, healthCheckInterval, timers,
                   authVars, proxyVars, helperVars, storeVars>>

\* a probe under way completes: updateHealthStatus(upstream.id, isHealthy);
\* `more` says whether another probe of the same upstream is still under way
ProbeCompletes ==
    /\ \E id \in probesInFlight, isHealthy \in BOOLEAN, more \in BOOLEAN :
          /\ UpdateHealthStatus(id, isHealthy)
          /\ probesInFlight' = IF more THEN probesInFlight ELSE probesInFlight \ {id}
    /\ UNCHANGED <<lbConfig, upstreams, currentIndex, weightCounters, lbResult, selections,
                   healthCheckInterval, timers, authVars, proxyVars, helperVars, storeVars>>

\* selectUpstream(requestId), the outcomes since the last load kept in order
ReloadSelect ==
    /\ lbResult.calls < MaxLBCalls
    /\ \E rnd \in DrawsOf(lbConfig) : SelectStep(rnd)
    /\ selections' = Append(selections, lbResult'.id)
    /\ UNCHANGED <<authVars, proxyVars, helperVars, storeVars>>

\* two upstreams, each enabled or not, the two strategies that keep state
\* between calls, health checks and failover on or off
ReloadConfigs ==
    { LBConfig(<<MkUpstream(1, 3, e[1]), MkUpstream(2, 1, e[2])>>, s, hc, fo) :
        e \in [1..2 -> BOOLEAN], s \in {"round_robin", "weighted_round_robin"},
        hc \in BOOLEAN, fo \in BOOLEAN }

InitReload ==
    /\ \E cfg \in ReloadConfigs : LBFresh(cfg)
    /\ AuthIdle
    /\ ProxyFresh
    /\ HelperIdle

NextReload ==
    \/ \E cfg \in ReloadConfigs : Reload(cfg)
    \/ Destroy
    \/ TimerFires
    \/ ProbeCompletes
    \/ ReloadSelect

SpecReload == InitReload /\ [][NextReload]_vars

\* the candidates of selectUpstream on a balancer constructed on `cfg`,
\* under the health map `health`
FreshCandidates(cfg, health) ==
    LET ups == SelectSeq(cfg.upstreams, LAMBDA u : u.enabled)
        healthy == SelectSeq(ups, LAMBDA u : health[u.id] # "unhealthy") IN
    IF ~cfg.healthCheckEnabled THEN [none |-> FALSE, list |-> ups]
    ELSE IF Len(healthy) > 0 THEN [none |-> FALSE, list |-> healthy]
    ELSE IF cfg.failoverEnabled THEN [none |-> FALSE, list |-> ups]
    ELSE [none |-> TRUE, list |-> <<>>]

FreshSelectUpstream(cfg, health, idx, ctrs, rnd) ==
    LET c == FreshCandidates(cfg, health) IN
    IF c.none THEN Threw(idx, ctrs)
    ELSE StrategySwitch(StrategyOf(cfg), c.list, idx, ctrs, rnd)

\* the first n outcomes of a balancer constructed on `cfg` whose health map
\* stays `health`
RECURSIVE FreshRun(_, _, _, _, _)
FreshRun(cfg, health, idx, ctrs, n) ==
    IF n = 0 THEN <<>>
    ELSE LET sel == FreshSelectUpstream(cfg, health, idx, ctrs, 0) IN
         <<sel.id>> \o FreshRun(cfg, health, sel.index, sel.counters, n - 1)

\* C21: the upstream list is always the enabled upstreams of the loaded
\* configuration; right after a load or reload the round-robin index is 0
\* and the weighted-round-robin counters are cleared, so the next selection
\* is the one a newly constructed balancer makes under the same health map;
\* and while the health map is not consulted the outcomes since the reload
\* are those of a newly constructed balancer.
C21_ReloadIsFreshStart ==
    /\ upstreams = SelectSeq(lbConfig.upstreams, LAMBDA u : u.enabled)
    /\ selections = <<>> =>
          /\ currentIndex = 0
          /\ weightCounters = NullCounters
          /\ \A rnd \in DrawsOf(lbConfig) :
                SelectUpstream(rnd) = FreshSelectUpstream(lbConfig, healthStatus, 0, NullCounters, rnd)
    /\ ~lbConfig.healthCheckEnabled =>
          selections = FreshRun(lbConfig, healthStatus, 0, NullCounters, Len(selections))

\* a reload came after selections and probe results, and two selections
\* followed it
C21_Witness ==
    /\ healthCheckInterval = 2
    /\ lbResult.calls = 4
    /\ Len(selections) = 2
    /\ lbConfig.strategy = "weighted_round_robin"
    /\ Len(upstreams) = 2
    /\ \E id \in IdSet : healthStatus[id] = "unhealthy"

\* C25: selectUpstream returns only upstreams enabled in the configuration
\* as of the last load or reload, failover included, and a probe is started
\* only for such an upstream.
C25_DisabledInvisible ==
    /\ [][(lbResult'.calls = lbResult.calls + 1 /\ ~lbResult'.threw)
            => lbResult'.id \in EnabledIds]_vars
    /\ [][\A id \in probesInFlight' \ probesInFlight :
            \E k \in 1..Len(lbConfig'.upstreams) :
               lbConfig'.upstreams[k].id = id /\ lbConfig'.upstreams[k].enabled]_vars

\* after a reload that disabled A, B is returned in failover mode although
\* it is marked unhealthy
C25_Witness ==
    /\ healthCheckInterval = 2
    /\ lbConfig.failoverEnabled
    /\ ~lbConfig.upstreams[1].enabled
    /\ healthStatus["B"] = "unhealthy"
    /\ healthStatus["A"] = "healthy"
    /\ selections = <<"B">>

\* C29: at most one interval timer is active, and it is the one whose handle
\* the balancer holds; no timer is active while health checks are disabled;
\* a reload that starts a timer leaves that timer as the only one; destroy()
\* leaves none.
C29_AtMostOneTimer ==
    /\ [](/\ Cardinality(timers) <= 1
          /\ timers \subseteq {healthCheckInterval}
          /\ ~lbConfig.healthCheckEnabled => timers = {})
    /\ [][healthCheckInterval' # healthCheckInterval => timers' = {healthCheckInterval'}]_vars
    /\ [][(timers' # timers /\ healthCheckInterval' = healthCheckInterval) => timers' = {}]_vars

\* the second timer is the only one active
C29_Witness == healthCheckInterval = 2 /\ timers = {2}

-----------------------------------------------------------------------------
(* SpecLive: one request, with the progress the event loop guarantees *)

\* the continuations of handleRequest run once they are due
HandlerStep(r) ==
    \/ Authenticated(r)
    \/ LimitRead(r)
    \/ LimitChecked(r)
    \/ RecordAppend(r)

\* the upstream request does not stay silent for ever: the response, a
\* chunk or the end arrives, or the socket fails, or the timeout set at
\* proxy.js:172 fires
UpstreamStep(r) ==
    \/ UpstreamResponse(r)
    \/ UpstreamData(r)
    \/ UpstreamEnd(r)
    \/ UpstreamError(r)
    \/ UpstreamTimeout(r)

SpecLive ==
    /\ InitClient
    /\ [][NextLimit]_vars
    /\ \A r \in ClientRequests : WF_vars(HandlerStep(r)) /\ WF_vars(UpstreamStep(r))

\* C26: once the response headers were sent to the client, the client
\* response is eventually ended and handleRequest completes, also when the
\* upstream fails or times out in between.
C26_HeadersSentLeadsToEnd ==
    \A r \in ClientRequests :
        (res[r].heads = 1) ~> (res[r].ends = 1 /\ pc[r] = "done")

-----------------------------------------------------------------------------
(* SpecCheck: checkLimitsExceeded applied to a tenant, today's cost and the *)
(* tokens of the request                                                    *)

MaxUSD == 2
MaxCost == 3

\* what getTenant may return: no tenant, a tenant without limits.daily.maxUSD,
\* a tenant with maxUSD of 0..MaxUSD micro-dollars
LimitTenants ==
    {NoTenant, Tenant("t", "k", TRUE, << <<"*">> >>, FALSE, 0)}
      \cup {Tenant("t", "k", TRUE, << <<"*">> >>, TRUE, m) : m \in 0..MaxUSD}

InitCheck ==
    /\ LBFresh(LBConfig(<<MkUpstream(1, 1, TRUE)>>, "weighted_round_robin", FALSE, FALSE))
    /\ AuthIdle
    /\ ProxyFresh
    /\ HelperIdle

CheckLimitsExceededCall ==
    \E tenant \in LimitTenants, model \in {ModelH, ModelS}, n \in 0..MaxTokens,
       currentCost \in 0..MaxCost :
        LET tokensToAdd == [ZeroTokens EXCEPT !.inputTokens = n] IN
        HelperCall([tenant |-> tenant, model |-> model, tokensToAdd |-> tokensToAdd,
                    currentCost |-> currentCost],
                   CheckLimitsExceeded(tenant, model, tokensToAdd, currentCost))

NextCheck == CheckLimitsExceededCall

SpecCheck == InitCheck /\ [][NextCheck]_vars

\* today's cost plus the projected cost of the tokens of the call
NewTotalCost(in) == in.currentCost + CalculateCost(in.model, in.tokensToAdd).totalCost

\* C27: exceeded is false for a tenant without maxUSD; for a tenant with a
\* configured maxUSD, 0 included, exceeded is true exactly when today's cost
\* plus the projected cost is greater than maxUSD.
C27_ExceededIffOverMaxUSD ==
    helperIn # <<>> =>
        LET in == helperIn[1] IN
        /\ in.tenant.id # "none" /\ ~in.tenant.hasMax => helperOut[1] = FALSE
        /\ in.tenant.id # "none" /\ in.tenant.hasMax =>
              (helperOut[1] <=> NewTotalCost(in) > in.tenant.maxUSD)

\* the same with a positive maxUSD
C27_ExceededIffOverPositiveMaxUSD ==
    helperIn # <<>> =>
        LET in == helperIn[1] IN
        /\ in.tenant.id # "none" /\ ~in.tenant.hasMax => helperOut[1] = FALSE
        /\ in.tenant.id # "none" /\ in.tenant.hasMax /\ in.tenant.maxUSD > 0 =>
              (helperOut[1] <=> NewTotalCost(in) > in.tenant.maxUSD)

-----------------------------------------------------------------------------
(* SpecRecord: one request whose upstream may answer with a body that       *)
(* carries no usage                                                         *)

\* an error body, a JSON body without usage, an event stream cut after an
\* event line, an event stream cut inside a data line, an empty body
UsagelessResponses ==
    { [status |-> 500, body |-> <<JsonDoc(NoModel, NoUsage)>>],
      [status |-> 200, body |-> <<JsonDoc(ModelH, NoUsage)>>],
      [status |-> 200, body |-> <<EventLine("message_delta"), LF>>],
      [status |-> 200, body |-> <<EventLine("message_delta"), LF, Text>>],
      [status |-> 429, body |-> <<>>] }

NextRecord ==
    \/ \E r \in ClientRequests : Arrive(r)
    \/ \E r \in ClientRequests : Authenticated(r)
    \/ \E r \in ClientRequests : LimitRead(r)
    \/ \E r \in ClientRequests : LimitChecked(r)
    \/ \E r \in ClientRequests : UpstreamResponseFrom(r, UpstreamResponses \cup UsagelessResponses)
    \/ \E r \in ClientRequests : UpstreamData(r)
    \/ \E r \in ClientRequests : UpstreamEnd(r)
    \/ \E r \in ClientRequests : RecordAppend(r)
    \/ \E r \in ClientRequests : UpstreamTimeout(r)
    \/ \E r \in ClientRequests : UpstreamError(r)
    \/ Midnight

SpecRecord == InitClient /\ [][NextRecord]_vars

\* the upstream response of request r, of a known tenant, has ended and no
\* usage can be extracted from the body that was collected
EndedWithoutUsage(r) ==
    /\ ResponseEnded(r)
    /\ ctx[r].upstreamStatus # 0
    /\ ctx[r].tenant # "none"
    /\ ~ExtractTokenUsage(responseBody[r]).found

-----------------------------------------------------------------------------
(* SpecAppend: MaxWriters concurrent recordUsage calls of one tenant on one *)
(* day, each a chain of awaited file-system operations                      *)

AppendTenant == "t1"
AppendDay == 1

\* the usage object of call w
WriterUsage(w) ==
    [requestId |-> w, model |-> ModelH, tokens |-> [ZeroTokens EXCEPT !.inputTokens = 1],
     statusCode |-> 200, upstream |-> "A"]

\* the directory that ensureDirectory is called with at each stage
StageDir(stage) == IF stage = "tenant" THEN <<AppendTenant>> ELSE <<AppendTenant, "month">>
NextStage(stage) == IF stage = "tenant" THEN "access_month" ELSE "append"

\* an fs.mkdir without `recursive`: EEXIST when the directory is there
MkdirExclusive(ds, d) ==
    IF d \in ds THEN [threw |-> TRUE, dirs |-> ds] ELSE [threw |-> FALSE, dirs |-> ds \cup {d}]
\* fs.mkdir(dir, { recursive: true }): the directory and its parents exist
\* afterwards; an existing directory is not an error
Mkdir(ds, d) ==
    [threw |-> FALSE, dirs |-> ds \cup {SubSeq(d, 1, n) : n \in 1..Len(d)}]

\* recordUsage(tenantId, usage) is called: the record is built and
\* ensureDirectory(tenantDir) is awaited
RecordUsageCall(w) ==
    /\ writers[w] = "idle"
    /\ writers' = [writers EXCEPT ![w] = "access_tenant"]
    /\ UNCHANGED <<dirs, lbVars, authVars, proxyVars, helperVars>>

\* ensureDirectory: fs.access(dir) completes
Access(w, stage) ==
    /\ writers[w] = "access_" \o stage
    /\ writers' = [writers EXCEPT ![w] = IF StageDir(stage) \in dirs THEN NextStage(stage)
                                          ELSE "mkdir_" \o stage]
    /\ UNCHANGED <<dirs, lbVars, authVars, proxyVars, helperVars>>

\* ensureDirectory: fs.mkdir(dir, { recursive: true }) completes; a throw
\* leaves recordUsage through its catch
MkdirDone(w, stage) ==
    /\ writers[w] = "mkdir_" \o stage
    /\ LET m == Mkdir(dirs, StageDir(stage)) IN
       /\ dirs' = m.dirs
       /\ writers' = [writers EXCEPT ![w] = IF m.threw THEN "failed" ELSE NextStage(stage)]
    /\ UNCHANGED <<lbVars, authVars, proxyVars, helperVars>>

\* appendToUsageFile: fs.appendFile(filePath, line) completes, one write of
\* the whole line at the end of the file; ENOENT without the month directory
AppendFile(w) ==
    /\ writers[w] = "append"
    /\ IF <<AppendTenant, "month">> \in dirs
       THEN /\ usageFiles' = AppendToUsageFile(usageFiles, AppendTenant, AppendDay,
                                               UsageRecord(AppendTenant, WriterUsage(w)))
            /\ writers' = [writers EXCEPT ![w] = "done"]
       ELSE /\ writers' = [writers EXCEPT ![w] = "failed"]
            /\ UNCHANGED usageFiles
    /\ UNCHANGED <<req, pc, ctx, snapshot, upstreamOpened, upstreamSent, upstreamLeft,
                   upstreamGot, responseBody, res, today, dirs, lbVars, authVars, helperVars>>

InitAppend ==
    /\ LBFresh(LBConfig(<<MkUpstream(1, 1, TRUE)>>, "weighted_round_robin", FALSE, FALSE))
    /\ AuthIdle
    /\ ProxyFresh
    /\ HelperIdle

NextAppend ==
    \/ \E w \in Writers : RecordUsageCall(w)
    \/ \E w \in Writers, stage \in {"tenant", "month"} : Access(w, stage)
    \/ \E w \in Writers, stage \in {"tenant", "month"} : MkdirDone(w, stage)
    \/ \E w \in Writers : AppendFile(w)

SpecAppend == InitAppend /\ [][NextAppend]_vars

\* the calls that have returned
WritersDone == {w \in Writers : writers[w] = "done"}

\* C30: whatever the interleaving of the calls' file-system operations, no
\* call fails, the day file holds one complete line per call that has
\* returned and nothing else, and getDailyUsage counts these calls; once
\* all MaxWriters calls have returned that is MaxWriters lines.
C30_OneLinePerCall ==
    LET file == usageFiles[AppendTenant][AppendDay] IN
    /\ \A w \in Writers : writers[w] # "failed"
    /\ Len(file) = Cardinality(WritersDone)
    /\ \A k \in 1..Len(file) : file[k].t = "json"
    /\ \A w \in WritersDone :
          Cardinality({k \in 1..Len(file) : file[k] = StringifyRecord(UsageRecord(AppendTenant, WriterUsage(w)))}) = 1
    /\ ~GetDailyUsageThrows(AppendTenant, AppendDay)
    /\ GetDailyUsage(AppendTenant, AppendDay).totalRequests = Cardinality(WritersDone)

\* two calls have returned and their lines are in the file, while the third,
\* which found the tenant directory missing before they created it, has its
\* mkdir still to come
C30_Witness ==
    /\ Cardinality(WritersDone) = 2
    /\ Len(usageFiles[AppendTenant][AppendDay]) = 2
    /\ \E w \in Writers : writers[w] = "mkdir_tenant"

-----------------------------------------------------------------------------
(* Claims C31 to C40 *)

\* the cost checkLimitsExceeded projects for request r
ProjectedCost(r) == CalculateCost(ctx[r].model, ExtractTokenUsage(req[r].body).tokens).totalCost

\* C31: the limit check reserves nothing.  No step of the check changes a
\* usage file, and a request whose own projected cost fits on top of the
\* spend it observed is not answered 429, whatever other requests of the
\* tenant are under way; so two requests of one tenant can pass against the
\* same observed spend and together overshoot the cap.
C31_CheckReservesNothing ==
    [][\A r \in Requests :
          (pc[r] \in {"limit", "limit_read"} /\ pc'[r] # pc[r])
             => /\ usageFiles' = usageFiles
                /\ (pc[r] = "limit_read"
                     /\ snapshot[r] + ProjectedCost(r) <= GetTenant(ctx[r].tenant).maxUSD)
                      => res'[r].status # 429]_vars

\* both requests of t1 passed the check against the same observed spend,
\* were forwarded and recorded on the same day, and the day's spend is above
\* maxUSD by more than the cost of either
C31_Witness ==
    /\ \A r \in Requests :
          /\ pc[r] = "done"
          /\ ctx[r].tenant = "t1"
          /\ LimitGuardApplies(ctx[r].model, req[r].body)
          /\ upstreamOpened[r] = 1
          /\ RecordPlaces(r) # {}
          /\ ctx[r].recordDay = 1
    /\ snapshot[1] = snapshot[2]
    /\ \A r \in Requests :
          GetDailyUsage("t1", 1).totalCost > GetTenant("t1").maxUSD + RecordOf(r).cost.totalCost

-----------------------------------------------------------------------------
(* SpecMatch: matchPattern applied to a pattern and a text *)

MaxPattern == 3
MaxText == 3

TextAlphabet == {"a", "A", ".", "?", "+"}
PatternAlphabet == TextAlphabet \cup {"*"}

Strings(alphabet, n) == UNION {[1..k -> alphabet] : k \in 1..n}

InitMatch ==
    /\ LBFresh(LBConfig(<<MkUpstream(1, 1, TRUE)>>, "weighted_round_robin", FALSE, FALSE))
    /\ AuthIdle
    /\ ProxyFresh
    /\ HelperIdle

MatchPatternCall ==
    /\ helperIn = <<>>
    /\ \E pattern \in Strings(PatternAlphabet, MaxPattern), text \in Strings(TextAlphabet, MaxText) :
          HelperCall([pattern |-> pattern, text |-> text], MatchPattern(pattern, text))

NextMatch == MatchPatternCall

SpecMatch == InitMatch /\ [][NextMatch]_vars

\* the text, compared without regard to case, is the pattern with each '*'
\* replaced by some string; every other character stands for itself
RECURSIVE GlobMatch(_, _)
GlobMatch(pattern, text) ==
    IF pattern = <<>> THEN text = <<>>
    ELSE IF Head(pattern) = "*"
         THEN GlobMatch(Tail(pattern), text)
              \/ (text # <<>> /\ GlobMatch(pattern, Tail(text)))
         ELSE /\ text # <<>>
              /\ LowerCase(Head(pattern)) = LowerCase(Head(text))
              /\ GlobMatch(Tail(pattern), Tail(text))

\* C32: for a non-empty pattern and a non-empty text, matchPattern is true
\* exactly when the text, compared case-insensitively, is the pattern with
\* each '*' replaced by a possibly empty string.
C32_MatchPatternIsGlob ==
    helperIn # <<>> =>
        (helperOut[1] <=> GlobMatch(helperIn[1].pattern, helperIn[1].text))

\* the same for the patterns without '?'
C32_GlobWithoutQuestionMark ==
    (helperIn # <<>> /\ "?" \notin Range(helperIn[1].pattern)) =>
        (helperOut[1] <=> GlobMatch(helperIn[1].pattern, helperIn[1].text))

-----------------------------------------------------------------------------
(* SpecConvert: convertStreamingData applied to one data object *)

EventTypes ==
    {"message_start", "content_block_start", "content_block_delta", "content_block_stop",
     "message_delta", "message_stop", "ping", "undefined"}

Deltas ==
    {NoDelta} \cup {Delta(text, stop_reason) :
                      text \in {"undefined", "", "t"},
                      stop_reason \in {"undefined", "", "end_turn", "max_tokens", "stop_sequence"}}

InitConvert ==
    /\ LBFresh(LBConfig(<<MkUpstream(1, 1, TRUE)>>, "weighted_round_robin", FALSE, FALSE))
    /\ AuthIdle
    /\ ProxyFresh
    /\ HelperIdle

ConvertStreamingDataCall ==
    \E type \in EventTypes, delta \in Deltas :
        HelperCall(ClaudeData(type, delta), ConvertStreamingChunk(ClaudeData(type, delta)))

NextConvert == ConvertStreamingDataCall

SpecConvert == InitConvert /\ [][NextConvert]_vars

\* what the translator is to emit for a data object: the choices of the one
\* chunk, or nothing
ExpectedChunk(data) ==
    CASE data.type = "message_start" ->
            Chunk(<<Choice([role |-> "assistant", content |-> ""], "null")>>)
      [] data.type = "content_block_delta" /\ data.delta.present /\ Truthy(data.delta.text) ->
            Chunk(<<Choice([content |-> data.delta.text], "null")>>)
      [] data.type = "message_delta" /\ data.delta.present /\ Truthy(data.delta.stop_reason) ->
            Chunk(<<Choice(<<>>, IF data.delta.stop_reason = "end_turn" THEN "stop" ELSE "length")>>)
      [] data.type = "message_stop" ->
            Chunk(<<Choice(<<>>, "stop")>>)
      [] OTHER -> NullChunk

\* C33: for a data object the translator emits the one chunk that belongs to
\* its type (message_start, content_block_delta with a text, message_delta
\* with a stop_reason, message_stop), and nothing for every other type and
\* for a content_block_delta without text.
C33_OneChunkPerEvent ==
    helperIn # <<>> => helperOut[1] = ExpectedChunk(helperIn[1])

\* the same for every data object but a content_block_delta without text
C33_OneChunkExceptTextlessDelta ==
    (helperIn # <<>>
     /\ ~(helperIn[1].type = "content_block_delta"
          /\ ~(helperIn[1].delta.present /\ Truthy(helperIn[1].delta.text))))
       => helperOut[1] = ExpectedChunk(helperIn[1])

-----------------------------------------------------------------------------
(* SpecRejoin: weighted round-robin with health checks, selections without *)
(* end                                                                     *)

\* selectUpstream(requestId); the calls are counted up to MaxLBCalls only
RejoinSelect ==
    LET sel == SelectUpstream(0) IN
    /\ lbResult' = [threw |-> sel.threw, id |-> sel.id,
                    calls |-> IF lbResult.calls < MaxLBCalls THEN lbResult.calls + 1 ELSE lbResult.calls]
    /\ currentIndex' = sel.index
    /\ weightCounters' = sel.counters
    /\ UNCHANGED <<lbConfig, upstreams, healthStatus, selections, timerVars,
                   authVars, proxyVars, helperVars, storeVars>>

\* two or three enabled upstreams with weights 2, 1, 1, failover on or off
RejoinConfigs ==
    { LBConfig([k \in 1..n |-> MkUpstream(k, IF k = 1 THEN 2 ELSE 1, TRUE)],
               "weighted_round_robin", TRUE, fo) : n \in 2..3, fo \in BOOLEAN }

InitRejoin ==
    /\ \E cfg \in RejoinConfigs : LBFresh(cfg)
    /\ AuthIdle
    /\ ProxyFresh
    /\ HelperIdle

NextRejoin == RejoinSelect \/ ProbeResult

\* requests keep coming: a selection that can be made is made
SpecRejoin == InitRejoin /\ [][NextRejoin]_vars /\ WF_vars(RejoinSelect)

\* the counters were created by a selection whose candidates did not
\* include id
LeftOut(id) == ~weightCounters.null /\ weightCounters.m[id].k # "num"

StaysHealthy(id) == id \in IdsOf(upstreams) /\ healthStatus[id] # "unhealthy"

IsReturned(id) == ~lbResult.threw /\ lbResult.id = id

\* C34: every counter stays a finite integer, and an enabled upstream that
\* was not a candidate when the counters were created and that is healthy
\* from some moment on is returned again and again while selections are made.
C34_RejoinedIsSelected ==
    /\ [](\A id \in IdSet : weightCounters.m[id].k # "NaN")
    /\ \A id \in IdSet : <>[](LeftOut(id) /\ StaysHealthy(id)) => []<>IsReturned(id)

\* C35: under weighted_round_robin an enabled, healthy upstream configured
\* with weight 0 is never returned while another candidate has a positive
\* weight.
C35_ZeroWeightNeverSelected ==
    \A k \in 1..Len(upstreams) :
        (/\ upstreams[k].weight = 0
         /\ \E j \in 1..Len(upstreams) : upstreams[j].weight > 0)
            => \A i \in 1..Len(selections) : selections[i] # upstreams[k].id

\* an upstream as proxyRequest reads it: its key ("" when none is
\* configured) and the pathname of new URL(upstream.url)
ProxyUpstream(key, pathname) == [key |-> key, pathname |-> pathname]

\* originalUrl.startsWith('/anthropic')
StartsWithAnthropic(path) == path = "/anthropic/v1/messages"

\* originalUrl.slice(10): the path without its /anthropic prefix; the query
\* string is part of req.url and stays behind the path
Slice10(path) == IF path = "/anthropic/v1/messages" THEN "/v1/messages" ELSE path

\* rewriteUrl(originalUrl, upstream): the url sent to the upstream, as the
\* upstream's pathname prefix, the path and the api_key of the query string
RewriteUrl(r, upstream) ==
    IF StartsWithAnthropic(r.path)
    THEN [prefix |-> IF upstream.pathname # "/" THEN upstream.pathname ELSE "",
          path |-> Slice10(r.path), queryKey |-> r.queryKey]
    ELSE [prefix |-> "", path |-> r.path, queryKey |-> r.queryKey]

\* createProxyOptions(upstream, originalReq, customPath): path and a copy of
\* the client's headers
CreateProxyOptions(upstream, r, customPath) ==
    [path |-> customPath,
     headers |-> [authorization |-> r.authorization, xApiKey |-> r.xApiKey]]

\* setupProxyHeaders(headers, upstream, originalReq)
SetupProxyHeaders(headers, upstream) ==
    IF upstream.key # ""
    THEN [authorization |-> AuthHeader("Bearer", upstream.key), xApiKey |-> ""]
    ELSE headers

\* the options proxyRequest hands to http.request
UpstreamRequest(r, upstream) ==
    LET options == CreateProxyOptions(upstream, r, RewriteUrl(r, upstream)) IN
    [options EXCEPT !.headers = SetupProxyHeaders(options.headers, upstream)]

\* SpecForward: the upstream request built for a client request that
\* carries tenant keys in any of the four places, for upstreams with and
\* without a key and a path
TenantKeys == {"k1", "k2"}
ForwardRequests ==
    { Request(p, IF t = "" THEN NoAuthHeader ELSE AuthHeader(s, t), x, q, <<>>) :
        p \in {"/anthropic/v1/messages", "/v1/messages"}, s \in {"Bearer", "API-Key"},
        t \in TenantKeys \cup {""}, x \in TenantKeys \cup {""}, q \in TenantKeys \cup {""} }
ForwardUpstreams == { ProxyUpstream(key, pathname) : key \in {"", "uk"}, pathname \in {"/", "/api"} }

InitForward ==
    /\ LBFresh(LBConfig(<<MkUpstream(1, 1, TRUE)>>, "weighted_round_robin", FALSE, FALSE))
    /\ AuthIdle
    /\ ProxyFresh
    /\ HelperIdle

UpstreamRequestCall ==
    \E r \in ForwardRequests, upstream \in ForwardUpstreams :
        HelperCall([req |-> r, upstream |-> upstream], UpstreamRequest(r, upstream))

NextForward == UpstreamRequestCall

SpecForward == InitForward /\ [][NextForward]_vars

\* the places of a request that hold a credential
CredentialsOf(r) ==
    (IF r.authorization.scheme # "none" THEN {"authorization"} ELSE {})
        \cup (IF r.xApiKey # "" THEN {"x-api-key"} ELSE {})
        \cup (IF r.queryKey # "" THEN {"api_key"} ELSE {})

\* the request with every credential it carries set to key
WithKey(r, key) ==
    Request(r.path,
            IF r.authorization.scheme # "none" THEN AuthHeader(r.authorization.scheme, key)
            ELSE r.authorization,
            IF r.xApiKey # "" THEN key ELSE r.xApiKey,
            IF r.queryKey # "" THEN key ELSE r.queryKey,
            r.body)

\* key occurs in the headers, the path or the query string of an upstream
\* request
CarriesKey(out, key) ==
    \/ out.headers.authorization.scheme # "none" /\ out.headers.authorization.token = key
    \/ out.headers.xApiKey = key
    \/ out.path.queryKey = key

\* C36: when the upstream has a key, the upstream request built for a
\* request that authenticates with a tenant key from one credential source
\* (Authorization Bearer, Authorization API-Key, X-Api-Key, api_key query)
\* carries the key neither in its headers nor in its path and query string,
\* and is the same for every value of the key.
C36_UpstreamRequestWithoutTenantKey ==
    helperIn # <<>> =>
        LET r == helperIn[1].req
            upstream == helperIn[1].upstream
        IN  (/\ upstream.key # ""
             /\ Cardinality(CredentialsOf(r)) = 1
             /\ ExtractAuthInfo(r).found)
                => /\ ~CarriesKey(helperOut[1], ExtractAuthInfo(r).token)
                   /\ \A key \in TenantKeys :
                         UpstreamRequest(WithKey(r, key), upstream) = helperOut[1]

\* C36 for the three header sources
C36_HeaderKeyNotForwarded ==
    helperIn # <<>> =>
        LET r == helperIn[1].req
            upstream == helperIn[1].upstream
        IN  (/\ upstream.key # ""
             /\ r.queryKey = ""
             /\ ExtractAuthInfo(r).found)
                => /\ ~CarriesKey(helperOut[1], ExtractAuthInfo(r).token)
                   /\ \A key \in TenantKeys :
                         UpstreamRequest(WithKey(r, key), upstream) = helperOut[1]

\* The text of a data line in two pieces, for chunk boundaries that fall
\* inside the line: the piece up to some place inside the JSON text, and the
\* rest of the line.
DataHead(type) == Unit("data_head", type, <<>>, NoUsage, NoUsage)
DataTail(type) == Unit("data_tail", type, <<>>, NoUsage, NoUsage)

\* the bytes of one chunk as text: two pieces of a data line that arrive in
\* the same chunk are the data line
RECURSIVE Glue(_)
Glue(chunk) ==
    IF chunk = <<>> THEN <<>>
    ELSE IF Len(chunk) >= 2 /\ chunk[1].t = "data_head" /\ chunk[2].t = "data_tail"
         THEN <<TypedDataLine(chunk[1].name, NoUsage, NoUsage)>> \o Glue(Tail(Tail(chunk)))
         ELSE <<Head(chunk)>> \o Glue(Tail(chunk))

\* event: <type> LF data: {"type": type, ...} LF LF, piece by piece
EventPieces(type) == <<EventLine(type), LF, DataHead(type), DataTail(type), LF, LF>>

\* the chunks the proxyRes 'data' handler sees when bytes is cut after the
\* positions of cuts
RECURSIVE ChunksOf(_, _, _)
ChunksOf(bytes, cuts, from) ==
    IF from > Len(bytes) THEN <<>>
    ELSE LET later == {c \in cuts : c >= from}
             to    == IF later = {} THEN Len(bytes)
                      ELSE CHOOSE c \in later : \A d \in later : c <= d
         IN  <<SubSeq(bytes, from, to)>> \o ChunksOf(bytes, cuts, to + 1)

\* res.write(chunk) of proxyRes.on('data') for each chunk in turn, on the
\* response handleStreamingRequest has patched: what reached the client
RECURSIVE WriteAll(_, _)
WriteAll(rs, chunks) ==
    IF chunks = <<>> THEN rs
    ELSE WriteAll(ResWrite(rs, Glue(Head(chunks))), Tail(chunks))

Delivered(chunks) == WriteAll([FreshRes EXCEPT !.patch = "stream"], chunks).body

\* the OpenAI frames of a text, in order
FramesOf(text) == SelectSeq(text, LAMBDA x : x.t \in {"chunk_frame", "done_frame"})

\* SpecChunks: an upstream stream of one or two SSE events, cut into chunks
\* at up to MaxCuts places
MaxStreamEvents == 2
MaxCuts == 2
StreamTypes == {"message_start", "content_block_delta", "message_delta", "message_stop", "ping"}
EventStreams == UNION {[1..n -> StreamTypes] : n \in 1..MaxStreamEvents}

BytesOf(types) == JoinEvents([k \in 1..Len(types) |-> EventPieces(types[k])])

CutSets(bytes) == {c \in SUBSET (1..(Len(bytes) - 1)) : Cardinality(c) <= MaxCuts}

InitChunks ==
    /\ LBFresh(LBConfig(<<MkUpstream(1, 1, TRUE)>>, "weighted_round_robin", FALSE, FALSE))
    /\ AuthIdle
    /\ ProxyFresh
    /\ HelperIdle

StreamWritten ==
    /\ helperIn = <<>>
    /\ \E types \in EventStreams :
          \E cuts \in CutSets(BytesOf(types)) :
              HelperCall([types |-> types, cuts |-> cuts],
                         Delivered(ChunksOf(BytesOf(types), cuts, 1)))

NextChunks == StreamWritten

SpecChunks == InitChunks /\ [][NextChunks]_vars

\* each SSE event in a chunk of its own
EventChunks(types) == [k \in 1..Len(types) |-> EventPieces(types[k])]

\* a cut that falls inside a data line
CutsDataLine(types, cuts) == \E c \in cuts : BytesOf(types)[c].t = "data_head"

\* C37: on the OpenAI streaming path, however the bytes of an upstream SSE
\* event stream are cut into chunks, a cut inside a data line included, the
\* OpenAI frames delivered to the client are those delivered when each
\* event arrives in a chunk of its own.
C37_FramesWhateverTheChunks ==
    helperIn # <<>> =>
        FramesOf(helperOut[1]) = FramesOf(Delivered(EventChunks(helperIn[1].types)))

\* C37 for cuts that fall between lines
C37_FramesWhenLinesAreWhole ==
    (helperIn # <<>> /\ ~CutsDataLine(helperIn[1].types, helperIn[1].cuts)) =>
        FramesOf(helperOut[1]) = FramesOf(Delivered(EventChunks(helperIn[1].types)))

\* the body opens with a message_start whose usage counts n > 0 input tokens
StartsWithInputTokens(body) ==
    /\ Len(body) >= 3
    /\ body[1].t = "event" /\ body[1].name = "message_start"
    /\ body[3].t = "data" /\ body[3].mu.present /\ body[3].mu.i > 0

\* C38: for an SSE body whose message_start usage has input_tokens = n > 0
\* and whose later message_delta usage has only output_tokens,
\* extractTokenUsage returns the input and cache counts of message_start
\* with the output count of the last message_delta.
C38_InputTokensKept ==
    helperIn # <<>> =>
        LET body   == helperIn[1].responseBody
            deltas == DeltaUsagePlaces(body)
            last   == CHOOSE k \in deltas : \A j \in deltas : j <= k
        IN  (StartsWithInputTokens(body) /\ deltas # {})
                => helperOut[1] = SomeTokens([inputTokens |-> body[3].mu.i,
                                              outputTokens |-> body[last].u.o,
                                              cacheCreationTokens |-> body[3].mu.cc,
                                              cacheReadTokens |-> body[3].mu.cr])

\* C38 for bodies in which no message_delta carries a usage object: the
\* counts of message_start are returned
C38_InputTokensKeptWithoutDelta ==
    helperIn # <<>> =>
        LET body == helperIn[1].responseBody IN
        (StartsWithInputTokens(body) /\ DeltaUsagePlaces(body) = {})
            => helperOut[1] = SomeTokens(TokensOf(body[3].mu))

\* the handler of r returns before upstream selection: the authenticator
\* rejects the request, or lets it through to the special routes
RejectedByAuth(r) == ~Authenticate(req[r]).success
Bypassed(r) == Authenticate(req[r]).skipAuth
\* the request was answered 429 by the limit guard
RejectedByLimit(r) == res[r].status = 429 /\ res[r].error = "limit_exceeded"

\* C39: a request rejected before upstream selection (401 or 403 from the
\* authenticator, 429 from the limit guard) or answered on a bypass path
\* (/health, /admin*) opens no upstream request and has no usage record, and
\* the step that answers it leaves the round-robin index, the weighted
\* round-robin counters and the usage files as they were.
C39_RejectedLeavesNoTrace ==
    /\ [](\A r \in Requests :
             (pc[r] = "done" /\ (RejectedByAuth(r) \/ Bypassed(r) \/ RejectedByLimit(r)))
                => /\ upstreamOpened[r] = 0
                   /\ upstreamSent[r] = <<>>
                   /\ RecordPlaces(r) = {})
    /\ [][\A r \in Requests :
             (/\ pc[r] \in {"auth", "limit_read"}
              /\ pc'[r] = "done"
              /\ \/ RejectedByAuth(r)
                 \/ Bypassed(r)
                 \/ res'[r].status = 429)
                => /\ res'[r].status \in {401, 403, 429, 200, 404}
                   /\ currentIndex' = currentIndex
                   /\ weightCounters' = weightCounters
                   /\ lbResult' = lbResult
                   /\ upstreamOpened' = upstreamOpened
                   /\ usageFiles' = usageFiles]_vars

\* C39 happens: one request was answered 429 and has left nothing, while
\* the one selection made and the one record written are those of the other
\* request, which was forwarded
C39_Witness ==
    \E r, q \in Requests :
        /\ pc[r] = "done" /\ RejectedByLimit(r)
        /\ upstreamOpened[r] = 0 /\ RecordPlaces(r) = {}
        /\ pc[q] = "done" /\ upstreamOpened[q] = 1 /\ RecordPlaces(q) # {}
        /\ lbResult.calls = 1
        /\ ~weightCounters.null \/ currentIndex > 0

\* the counter of the k-th candidate, and the sum of the counters
CounterOf(k) == weightCounters.m[upstreams[k].id]
CounterSum == SumSeq([k \in 1..Len(upstreams) |-> CounterOf(k).v])
\* the sum of the configured weights
ConfiguredTotal == SumSeq([k \in 1..Len(upstreams) |-> upstreams[k].weight])

\* after a selection the counters are numbers that sum to 0 (the total was
\* subtracted from a candidate: the maximum search found one) and each lies
\* strictly between -total and total
CountersBalanced(total) ==
    /\ \A k \in 1..Len(upstreams) : CounterOf(k).k = "num"
    /\ CounterSum = 0
    /\ \A k \in 1..Len(upstreams) : -total < CounterOf(k).v /\ CounterOf(k).v < total
    /\ ~lbResult.threw /\ lbResult.id \in IdsOf(upstreams)

\* C40: under weighted_round_robin over a fixed candidate list whose weights
\* have a positive sum, after every selection the counters of the candidates
\* sum to 0, each counter lies strictly between minus the sum of the weights
\* and the sum of the weights, and the selection found a candidate.
C40_CountersBalanced ==
    (Len(selections) > 0 /\ ConfiguredTotal > 0) => CountersBalanced(ConfiguredTotal)

\* C40 with the total the selection computes, in which a weight of 0 counts
\* as the default weight
C40_CountersBalancedByTotalWeight ==
    Len(selections) > 0 => CountersBalanced(TotalWeight(upstreams))

====
